---- MODULE Spec2Model ----
(***************************************************************************)
(* bevy_egui: the per-frame pass scheduler (src/src/lib.rs), the event     *)
(* fan-out iterator and the input systems (src/src/input.rs).              *)
(*                                                                         *)
(* Spec     : the frame pipeline of EguiPlugin::build as far as passes are *)
(*            concerned: write_egui_input_system, begin_pass_system, the   *)
(*            user's Update stage, run_egui_context_pass_loop_system,      *)
(*            end_pass_system, output processing.                          *)
(* SpecFan  : EguiContextEventReader / EguiContextsEventIterator driven by *)
(*            the translator systems' `for` loops.                         *)
(* SpecFocus: the two systems of EguiInputSet::FocusContext and the        *)
(*            commands that write FocusedNonWindowEguiContext.             *)
(* SpecMods : write_modifiers_keys_state_system and the text gate of       *)
(*            write_keyboard_input_events_system.                          *)
(* SpecTouch: write_touch_event, the touch-to-pointer emulation.           *)
(* SpecAgg  : write_egui_input_system, the EguiInputEvent loop.            *)
(* SpecStamp: write_egui_input_system, the focus stamp of every context.   *)
(* SpecDnd  : write_egui_input_system, the EguiFileDragAndDropEvent loop.  *)
(* SpecWants: write_egui_wants_input_system and absorb_bevy_input_system.  *)
(* SpecTex  : EguiUserTextures, the table of user texture ids.             *)
(* SpecIndex, SpecIndexPub: WindowToEguiContextMap and the two systems     *)
(*            that maintain it, with an entity that loses and regains its  *)
(*            EguiContext, resp. with writes to the map's public fields.   *)
(* SpecMidFrame: Spec with user systems of the Update stage that change a  *)
(*            context's run_manually flag or EguiMultipassSchedule.        *)
(* SpecIme  : write_ime_events_system, the loop body per host IME event.   *)
(* SpecFocusOrder: SpecFocus with the two systems of the FocusContext set  *)
(*            in either order and their command queues kept in order.      *)
(***************************************************************************)
EXTENDS Naturals, Integers, Sequences, FiniteSets, TLC

\* ---------------------------------------------------------------- bounds
NumCtx == 2          \* context entities that may exist
MaxPending == 1      \* events that may wait in one EguiInput buffer
MaxRerun == 1        \* discard-and-rerun requests honoured by one ctx.run
MaxEvents == 2       \* raw events read by one translator run
NumHandles == 3      \* image handles the application may register

Ctx == 1..NumCtx
NoCtx == 0           \* Option<Entity>::None / "addressed to no context"

\* Schedule labels: EguiPrimaryContextPass and two user labels.
EguiPrimaryContextPass == "EguiPrimaryContextPass"
SchedIds == {EguiPrimaryContextPass, "S1", "S2"}
NoSchedule == "none" \* entity without the EguiMultipassSchedule component

\* ------------------------------------------------------------- variables
VARIABLES
    \* components of the context entities
    alive,              \* entity has EguiContext
    multipass_schedule, \* EguiMultipassSchedule label, or NoSchedule
    run_manually,       \* EguiContextSettings::run_manually
    primary,            \* entity has PrimaryEguiContext
    input,              \* number of events pending in EguiInput
    full_output,        \* EguiFullOutput is Some
    \* position in the frame and locals of run_egui_context_pass_loop_system
    stage,
    multipass_contexts, \* the collected Vec still to be iterated
    used_schedules,
    cur,                \* context whose ctx.run returned, output not stored yet
    \* per-frame record of what the scheduler did
    steps,              \* per context: "B" drain+begin, "R" run, "E" output stored
    invocations,        \* schedule runs in order: [schedule, context]
    reruns              \* per context: discard requests its passes made in ctx.run

VARIABLES
    \* WindowToEguiContextMap and the two redirection resources
    window_to_contexts,     \* HashMap<window, HashSet<context>>
    context_to_window,      \* HashMap<context, window>
    hovered,                \* HoveredNonWindowEguiContext, NoCtx if absent
    focused,                \* FocusedNonWindowEguiContext, NoCtx if absent
    \* the EguiContextsEventIterator of the translator system that is running
    reader,                 \* constructor used, "none" when no iterator exists
    events,                 \* the reader's unread events: the window of each
    event_iter,             \* events already taken from event_iter
    current_event,          \* index of the event, 0 for None
    current_event_contexts, \* Vec<Entity>
    non_window_context,
    done,                   \* next() returned None: the for loop is over
    \* what the for loop received
    pairs,                  \* [event index][context] |-> times yielded
    last_yield,             \* event index of the last pair
    in_order                \* no pair so far came before a pair of a later event

schedVars == <<alive, multipass_schedule, run_manually, primary, input,
               full_output, stage, multipass_contexts, used_schedules, cur,
               steps, invocations, reruns>>

\* The scheduler's variables other than the contexts' existence.
schedRest == <<multipass_schedule, run_manually, primary, input, full_output, stage,
               multipass_contexts, used_schedules, cur, steps, invocations, reruns>>

fanVars == <<window_to_contexts, context_to_window, hovered, focused, reader, events,
             event_iter, current_event, current_event_contexts, non_window_context,
             done, pairs, last_yield, in_order>>

VARIABLES
    \* EguiInputSet::FocusContext: the two systems that own the focus resource
    enable_focused_non_window_context_updates, \* EguiGlobalSettings field
    fstage,                 \* EguiInputSet the frame is in
    ran,                    \* systems of FocusContext that have run in the frame
    mouse_button_unread,    \* MouseButtonInput events the reader has not taken
    touch_unread,           \* TouchInput events the reader has not taken
    commands,               \* focus values queued in Commands, not applied yet
    \* what happened in the frame
    frame_log,              \* kinds of event the platform sent in this frame
    handled,                \* kinds of event handed to the loop bodies
    focus_changed           \* the applied commands changed `focused`

focusVars == <<enable_focused_non_window_context_updates, fstage, ran,
               mouse_button_unread, touch_unread, commands, frame_log, handled,
               focus_changed>>

VARIABLES
    \* the modifier tracker and the keyboard translator
    modifier_keys_state,    \* ModifierKeysState resource
    mstage,                 \* position in the frame
    keyboard_log,           \* the frame's KeyboardInput and KeyboardFocusLost events
    text_events             \* indices of the key events that produced egui::Event::Text

modVars == <<modifier_keys_state, mstage, keyboard_log, text_events>>

VARIABLES
    \* touch-to-pointer emulation
    pointer_touch_id,       \* EguiContextPointerTouchId of each context
    prev_call,              \* the call of write_touch_event before the last one
    last_call               \* the last call: its arguments and what it wrote

touchVars == <<pointer_touch_id, prev_call, last_call>>

VARIABLES
    \* the input aggregator
    egui_input_event_reader, \* EguiInputEvent events written in this frame
    egui_input_events,       \* EguiInput::events of each context
    appended,                \* what the aggregator pushed to each buffer in this frame
    astage,                  \* position in the frame
    carried,                 \* what each buffer held when the frame started
    begun,                   \* contexts whose pass took the buffer in this frame
    handed                   \* what that pass was handed

aggVars == <<egui_input_event_reader, egui_input_events, appended, astage, carried,
             begun, handed>>

VARIABLES
    \* the third loop of the input aggregator
    window_focus,            \* per window entity: no Window component, or Window::focused
    egui_input_focused,      \* EguiInput::focused of each context
    sstage                   \* position in the frame

stampVars == <<window_focus, egui_input_focused, sstage>>

VARIABLES
    \* the second loop of the input aggregator
    egui_file_dnd_event_reader, \* EguiFileDragAndDropEvent events written in this frame
    hovered_files,           \* EguiInput::hovered_files of each context
    dropped_files,           \* EguiInput::dropped_files of each context
    files_before,            \* both lists as the aggregator found them
    dstage                   \* position in the frame

dndVars == <<egui_file_dnd_event_reader, hovered_files, dropped_files, files_before,
             dstage>>

VARIABLES
    \* the output summarizer
    ctx_wants,               \* per context: the queries its egui::Context answers true
    egui_wants_input,        \* EguiWantsInput resource
    absorbed,                \* what absorb_bevy_input_system cleared when it last ran
    wstage                   \* position in the frame

wantsVars == <<ctx_wants, egui_wants_input, absorbed, wstage>>

VARIABLES
    \* EguiUserTextures
    textures,                \* HashMap<Handle<Image>, u64>
    free_list,               \* Vec<u64>
    tex_call,                \* the last call: method, handle, returned id
    tex_before,              \* textures, free_list and tex_hist as the last call found them
    tex_hist                 \* issued: per handle, the id its add returned when it
                             \* became live; freed: the ids removes gave back, oldest
                             \* first, not handed out since; allocated: every id an
                             \* add handed out; removed: handles removed, not re-added

texVars == <<textures, free_list, tex_call, tex_before, tex_hist>>

VARIABLES
    \* the world as the index systems of InitContexts see it
    camera_target,           \* per context: the window its Camera renders to
    added_contexts,          \* contexts matching Added<EguiContext>
    removed_contexts,        \* RemovedComponents<EguiContext>, unread
    istage,                  \* position in the frame
    removed_before           \* the last removal batch held a context whose window had
                             \* no entry, then a context with both entries

idxVars == <<camera_target, added_contexts, removed_contexts, istage, removed_before>>

VARIABLES
    \* IME translation
    has_sent_ime_enabled,           \* EguiContextImeState::has_sent_ime_enabled
    run_write_ime_events_system,    \* the context's input_system_settings flag
    ime_written,                    \* the egui IME events written to each context
    ime_call                        \* the last host IME event read by the system

imeVars == <<has_sent_ime_enabled, run_write_ime_events_system, ime_written, ime_call>>

VARIABLES
    \* the command queues of EguiInputSet::FocusContext
    command_queue,          \* the focus commands in the order the systems queued them
    swapped_queue           \* the same commands had the two systems run in the other order

orderVars == <<command_queue, swapped_queue>>

lateVars == <<idxVars, imeVars, orderVars>>

restVars == <<stampVars, dndVars, wantsVars, texVars, lateVars>>

vars == <<schedVars, fanVars, focusVars, modVars, touchVars, aggVars, restVars>>

\* What the systems of one specification leave alone.
notSched == <<fanVars, focusVars, modVars, touchVars, aggVars, restVars>>
notFan == <<schedVars, focusVars, modVars, touchVars, aggVars, restVars>>

\* ------------------------------------------------------------ helpers
Repeat_Once(e, n) == <<e>>
RECURSIVE Repeat(_, _)
Repeat(e, n) == IF n = 0 THEN <<>> ELSE <<e>> \o Repeat(e, n - 1)

\* All orders in which a query may yield the entities of set S.
Orders(S) == {q \in [1..Cardinality(S) -> S] : \A i, j \in DOMAIN q : i # j => q[i] # q[j]}

\* Query<.., Without<EguiMultipassSchedule>> of begin_pass_system / end_pass_system.
LegacyContexts_NoFilter == {c \in Ctx : alive[c]}
LegacyContexts == {c \in Ctx : alive[c] /\ multipass_schedule[c] = NoSchedule}

\* MultiPassEguiQuery filtered by the run_manually test of the filter_map.
MultipassEligible_IgnoreFlag == {c \in Ctx : alive[c] /\ multipass_schedule[c] # NoSchedule}
MultipassEligible ==
    {c \in Ctx : alive[c] /\ multipass_schedule[c] # NoSchedule /\ ~run_manually[c]}

\* query_filtered::<Entity, (With<EguiContext>, With<PrimaryEguiContext>)>
PrimaryContextExists == \E c \in Ctx : alive[c] /\ primary[c]

\* The test guarding the unaddressed run of EguiPrimaryContextPass.
FallbackRuns_NoContextTest(used) == EguiPrimaryContextPass \notin used
FallbackRuns_Always(used) == PrimaryContextExists
FallbackRuns_Inverted(used) == PrimaryContextExists /\ EguiPrimaryContextPass \in used
FallbackRuns(used) == PrimaryContextExists /\ EguiPrimaryContextPass \notin used

\* used_schedules.insert(label) returned false.
ScheduleReused_Never(used, s) == FALSE
ScheduleReused(used, s) == s \in used

\* -------------------------------------------------------------- Init
SchedInit ==
    /\ alive = [c \in Ctx |-> FALSE]
    /\ multipass_schedule = [c \in Ctx |-> NoSchedule]
    /\ run_manually = [c \in Ctx |-> FALSE]
    /\ primary = [c \in Ctx |-> FALSE]
    /\ input = [c \in Ctx |-> 0]
    /\ full_output = [c \in Ctx |-> FALSE]
    /\ stage = "start"
    /\ multipass_contexts = <<>>
    /\ used_schedules = {}
    /\ cur = NoCtx
    /\ steps = [c \in Ctx |-> <<>>]
    /\ invocations = <<>>
    /\ reruns = [c \in Ctx |-> 0]

\* ------------------------------------------------------------- actions
\* User code between frames: despawn one context (a = FALSE), or spawn or
\* re-configure it.
UserConfigure(c, a, s, rm, p) ==
    /\ stage = "start"
    /\ alive' = [alive EXCEPT ![c] = a]
    /\ multipass_schedule' = [multipass_schedule EXCEPT ![c] = IF a THEN s ELSE NoSchedule]
    /\ run_manually' = [run_manually EXCEPT ![c] = a /\ rm]
    /\ primary' = [primary EXCEPT ![c] = a /\ p]
    /\ input' = [input EXCEPT ![c] = IF a /\ alive[c] THEN @ ELSE 0]
    /\ UNCHANGED <<full_output, stage, multipass_contexts, used_schedules, cur,
                   steps, invocations>>
    /\ UNCHANGED reruns
    /\ UNCHANGED notSched

\* write_egui_input_system: events addressed to the contexts of `addr` are
\* pushed to their buffers; an event for a missing context is skipped.
WriteEguiInput(addr) ==
    /\ stage = "start"
    /\ \A c \in addr : alive[c] => input[c] < MaxPending
    /\ input' = [c \in Ctx |-> IF c \in addr /\ alive[c] THEN input[c] + 1 ELSE input[c]]
    /\ stage' = "begin"
    /\ UNCHANGED <<alive, multipass_schedule, run_manually, primary, full_output,
                   multipass_contexts, used_schedules, cur, steps, invocations>>
    /\ UNCHANGED reruns
    /\ UNCHANGED notSched

\* begin_pass_system (PreUpdate).
BeginPassSystem ==
    /\ stage = "begin"
    /\ LET B == {c \in LegacyContexts : ~run_manually[c]} IN
        /\ input' = [c \in Ctx |-> IF c \in B THEN 0 ELSE input[c]]
        /\ steps' = [c \in Ctx |-> IF c \in B THEN Append(steps[c], "B") ELSE steps[c]]
    /\ stage' = "update"
    /\ UNCHANGED <<alive, multipass_schedule, run_manually, primary, full_output,
                   multipass_contexts, used_schedules, cur, invocations>>
    /\ UNCHANGED reruns
    /\ UNCHANGED notSched

\* The Update stage: the UI systems of contexts driven by begin/end_pass_system
\* run between PreUpdate and PostUpdate.
UpdateStage ==
    /\ stage = "update"
    /\ steps' = [c \in Ctx |-> IF steps[c] = <<"B">> THEN <<"B", "R">> ELSE steps[c]]
    /\ stage' = "collect"
    /\ UNCHANGED <<alive, multipass_schedule, run_manually, primary, input, full_output,
                   multipass_contexts, used_schedules, cur, invocations>>
    /\ UNCHANGED reruns
    /\ UNCHANGED notSched

\* A user system of the Update stage writes the context's settings or inserts
\* or removes its EguiMultipassSchedule, between begin_pass_system (PreUpdate)
\* and the systems of PostUpdate.
UserReconfigureMidFrame(c, s, rm) ==
    /\ stage = "update" /\ alive[c]
    /\ multipass_schedule' = [multipass_schedule EXCEPT ![c] = s]
    /\ run_manually' = [run_manually EXCEPT ![c] = rm]
    /\ UNCHANGED <<alive, primary, input, full_output, stage, multipass_contexts,
                   used_schedules, cur, steps, invocations, reruns>>
    /\ UNCHANGED notSched

\* run_egui_context_pass_loop_system, the filter_map/collect: the input of
\* every eligible context is taken, in the (arbitrary) query order.
CollectMultipass ==
    /\ stage = "collect"
    /\ \E order \in Orders(MultipassEligible) :
           multipass_contexts' =
               [i \in DOMAIN order |-> [entity |-> order[i],
                                        schedule |-> multipass_schedule[order[i]]]]
    /\ input' = [c \in Ctx |-> IF c \in MultipassEligible THEN 0 ELSE input[c]]
    /\ steps' = [c \in Ctx |-> IF c \in MultipassEligible
                                  THEN Append(steps[c], "B") ELSE steps[c]]
    /\ used_schedules' = {}
    /\ stage' = "loop"
    /\ UNCHANGED <<alive, multipass_schedule, run_manually, primary, full_output,
                   cur, invocations>>
    /\ UNCHANGED reruns
    /\ UNCHANGED notSched

\* One iteration of the for loop up to the return of ctx.run: the uniqueness
\* test, then the pass, re-run k times on request_discard.
RunPass(k) ==
    /\ stage = "loop" /\ cur = NoCtx /\ multipass_contexts # <<>>
    /\ LET h == Head(multipass_contexts) IN
       IF ScheduleReused(used_schedules, h.schedule)
       THEN /\ stage' = "panicked"
            /\ UNCHANGED <<used_schedules, cur, steps, invocations, reruns>>
       ELSE /\ used_schedules' = used_schedules \cup {h.schedule}
            /\ invocations' = invocations \o
                   Repeat([schedule |-> h.schedule, context |-> h.entity], k + 1)
            /\ steps' = [steps EXCEPT ![h.entity] = Append(@, "R")]
            /\ reruns' = [reruns EXCEPT ![h.entity] = k]
            /\ cur' = h.entity
            /\ stage' = stage
    /\ UNCHANGED <<alive, multipass_schedule, run_manually, primary, input, full_output,
                   multipass_contexts>>
    /\ UNCHANGED notSched

\* The rest of the iteration: the output is stored in the context's slot.
StoreOutput ==
    /\ stage = "loop" /\ cur # NoCtx
    /\ full_output' = [full_output EXCEPT ![cur] = TRUE]
    /\ steps' = [steps EXCEPT ![cur] = Append(@, "E")]
    /\ multipass_contexts' = Tail(multipass_contexts)
    /\ cur' = NoCtx
    /\ UNCHANGED <<alive, multipass_schedule, run_manually, primary, input, stage,
                   used_schedules, invocations>>
    /\ UNCHANGED reruns
    /\ UNCHANGED notSched

\* After the loop: the single-pass fallback.
Fallback ==
    /\ stage = "loop" /\ cur = NoCtx /\ multipass_contexts = <<>>
    /\ invocations' = IF FallbackRuns(used_schedules)
                      THEN Append(invocations, [schedule |-> EguiPrimaryContextPass,
                                                context |-> NoCtx])
                      ELSE invocations
    /\ stage' = "end"
    /\ UNCHANGED <<alive, multipass_schedule, run_manually, primary, input, full_output,
                   multipass_contexts, used_schedules, cur, steps>>
    /\ UNCHANGED reruns
    /\ UNCHANGED notSched

\* end_pass_system (PostUpdate, chained after the loop system).
EndPassSystem ==
    /\ stage = "end"
    /\ LET E == {c \in LegacyContexts : ~run_manually[c]} IN
        /\ full_output' = [c \in Ctx |-> IF c \in E THEN TRUE ELSE full_output[c]]
        /\ steps' = [c \in Ctx |-> IF c \in E THEN Append(steps[c], "E") ELSE steps[c]]
    /\ stage' = "output"
    /\ UNCHANGED <<alive, multipass_schedule, run_manually, primary, input,
                   multipass_contexts, used_schedules, cur, invocations>>
    /\ UNCHANGED reruns
    /\ UNCHANGED notSched

\* EguiPostUpdateSet::ProcessOutput consumes the output slots; the frame is over.
FrameEnd ==
    /\ stage = "output"
    /\ full_output' = [c \in Ctx |-> FALSE]
    /\ steps' = [c \in Ctx |-> <<>>]
    /\ invocations' = <<>>
    /\ reruns' = [c \in Ctx |-> 0]
    /\ used_schedules' = {}
    /\ stage' = "start"
    /\ UNCHANGED <<alive, multipass_schedule, run_manually, primary, input,
                   multipass_contexts, cur>>
    /\ UNCHANGED notSched

SchedNext ==
    \/ \E c \in Ctx : UserConfigure(c, FALSE, NoSchedule, FALSE, FALSE)
    \/ \E c \in Ctx, s \in SchedIds \cup {NoSchedule}, rm \in BOOLEAN, p \in BOOLEAN :
           UserConfigure(c, TRUE, s, rm, p)
    \/ \E addr \in SUBSET Ctx : WriteEguiInput(addr)
    \/ BeginPassSystem
    \/ UpdateStage
    \/ CollectMultipass
    \/ \E k \in 0..MaxRerun : RunPass(k)
    \/ StoreOutput
    \/ Fallback
    \/ EndPassSystem
    \/ FrameEnd


SchedMidFrameNext ==
    \/ \E c \in Ctx : UserConfigure(c, FALSE, NoSchedule, FALSE, FALSE)
    \/ \E c \in Ctx, s \in SchedIds \cup {NoSchedule}, rm \in BOOLEAN, p \in BOOLEAN :
           UserConfigure(c, TRUE, s, rm, p)
    \/ \E addr \in SUBSET Ctx : WriteEguiInput(addr)
    \/ BeginPassSystem
    \/ \E c \in Ctx, s \in SchedIds \cup {NoSchedule}, rm \in BOOLEAN :
           UserReconfigureMidFrame(c, s, rm)
    \/ UpdateStage
    \/ CollectMultipass
    \/ \E k \in 0..MaxRerun : RunPass(k)
    \/ StoreOutput
    \/ Fallback
    \/ EndPassSystem
    \/ FrameEnd

\* ================================================================ fan-out
\* Two window entities: each may have any number of contexts, or none.
Windows == {1, 2}
EventIdx == 1..MaxEvents

\* The translator systems and the constructor each one calls.
PlainSystems == {"write_window_pointer_moved_events_system",
                 "write_window_touch_events_system"}
HoverSystems == {"write_pointer_button_events_system",
                 "write_mouse_wheel_events_system",
                 "write_file_dnd_events_system"}
FocusSystems == {"write_keyboard_input_events_system",
                 "write_ime_events_system"}
Systems == PlainSystems \cup HoverSystems \cup FocusSystems

ReaderOf(sys) ==
    CASE sys \in PlainSystems -> "read"
      [] sys \in HoverSystems -> "read_with_non_window_hovered"
      [] sys \in FocusSystems -> "read_with_non_window_focused"

\* The non_window_context field each constructor stores.
NonWindowContextOf_Swapped(r) ==
    CASE r = "read" -> NoCtx
      [] r = "read_with_non_window_hovered" -> focused
      [] r = "read_with_non_window_focused" -> hovered
NonWindowContextOf(r) ==
    CASE r = "read" -> NoCtx
      [] r = "read_with_non_window_hovered" -> hovered
      [] r = "read_with_non_window_focused" -> focused

\* map.window_to_contexts.get(window): the Vec the iterator may be given, in
\* any order the HashSet may iterate; no entry, no assignment.
WindowContexts_AnyWindow(w) ==
    IF w \in DOMAIN window_to_contexts
    THEN Orders(UNION {window_to_contexts[v] : v \in DOMAIN window_to_contexts})
    ELSE {}
WindowContexts(w) ==
    IF w \in DOMAIN window_to_contexts THEN Orders(window_to_contexts[w]) ELSE {}

\* The contexts of map.window_to_contexts.get(window), none without an entry.
Registered(w) == IF w \in DOMAIN window_to_contexts THEN window_to_contexts[w] ELSE {}

NoPairs == [e \in EventIdx |-> [c \in Ctx |-> 0]]

FanInit ==
    /\ window_to_contexts = <<>>
    /\ context_to_window = <<>>
    /\ hovered = NoCtx
    /\ focused = NoCtx
    /\ reader = "none"
    /\ events = <<>>
    /\ event_iter = 0
    /\ current_event = 0
    /\ current_event_contexts = <<>>
    /\ non_window_context = NoCtx
    /\ done = FALSE
    /\ pairs = NoPairs
    /\ last_yield = 0
    /\ in_order = TRUE

iterVars == <<reader, events, event_iter, current_event, current_event_contexts,
              non_window_context, done, pairs, last_yield, in_order>>

\* Function f with key k set to v / with key k removed.
Put(f, k, v) == [x \in DOMAIN f \cup {k} |-> IF x = k THEN v ELSE f[x]]
Drop(f, k) == [x \in DOMAIN f \ {k} |-> f[x]]

\* on_egui_context_added_system for a new context c rendering to window w.
ContextAdded(c, w) ==
    /\ reader = "none"
    /\ c \notin DOMAIN context_to_window
    /\ window_to_contexts' =
           Put(window_to_contexts, w,
               (IF w \in DOMAIN window_to_contexts THEN window_to_contexts[w] ELSE {})
                   \cup {c})
    /\ context_to_window' = Put(context_to_window, c, w)
    /\ UNCHANGED <<hovered, focused, iterVars>>
    /\ UNCHANGED notFan

\* on_egui_context_removed_system for one removed context.
ContextRemoved(c) ==
    /\ reader = "none"
    /\ IF c \notin DOMAIN context_to_window
       THEN UNCHANGED <<window_to_contexts, context_to_window>>
       ELSE LET w == context_to_window[c] IN
            /\ context_to_window' = Drop(context_to_window, c)
            /\ window_to_contexts' =
                   IF w \notin DOMAIN window_to_contexts
                   THEN window_to_contexts
                   ELSE [window_to_contexts EXCEPT ![w] = @ \ {c}]
    /\ UNCHANGED <<hovered, focused, iterVars>>
    /\ UNCHANGED notFan

\* The hit-testing collaborator inserts or removes HoveredNonWindowEguiContext.
SetHovered(t) ==
    /\ reader = "none"
    /\ hovered' = t
    /\ UNCHANGED <<window_to_contexts, context_to_window, focused, iterVars>>
    /\ UNCHANGED notFan

\* The command queued on a press: the focus resource follows the hover resource.
FocusFollowsHover ==
    /\ reader = "none"
    /\ focused' = hovered
    /\ UNCHANGED <<window_to_contexts, context_to_window, hovered, iterVars>>
    /\ UNCHANGED notFan

\* A translator system starts its for loop: read / read_with_non_window_*.
StartRead(sys, evs) ==
    /\ reader = "none"
    /\ reader' = ReaderOf(sys)
    /\ events' = evs
    /\ event_iter' = 0
    /\ current_event' = 0
    /\ current_event_contexts' = <<>>
    /\ non_window_context' = NonWindowContextOf(ReaderOf(sys))
    /\ done' = FALSE
    /\ pairs' = NoPairs
    /\ last_yield' = 0
    /\ in_order' = TRUE
    /\ UNCHANGED <<window_to_contexts, context_to_window, hovered, focused>>
    /\ UNCHANGED notFan

\* Option::zip of the event and the context: Some is a pair handed to the loop
\* body, None ends the loop.
Yield(e, c) ==
    IF e = 0 \/ c = NoCtx
    THEN /\ done' = TRUE
         /\ UNCHANGED <<pairs, last_yield, in_order>>
    ELSE /\ done' = FALSE
         /\ pairs' = [pairs EXCEPT ![e][c] = @ + 1]
         /\ last_yield' = e
         /\ in_order' = (in_order /\ last_yield <= e)

\* Vec::pop on vec: the last element (NoCtx for None) is yielded with event e.
PopAndYield(e, vec) ==
    IF vec = <<>>
    THEN /\ current_event_contexts' = vec
         /\ Yield(e, NoCtx)
    ELSE /\ current_event_contexts' = SubSeq(vec, 1, Len(vec) - 1)
         /\ Yield(e, vec[Len(vec)])

\* EguiContextsEventIterator::next.
IterNext ==
    /\ reader # "none" /\ ~done
    /\ LET ce1 == IF current_event_contexts = <<>> THEN 0 ELSE current_event IN
       IF ce1 = 0
       THEN LET ce2 == IF event_iter < Len(events) THEN event_iter + 1 ELSE 0 IN
            /\ event_iter' = IF ce2 = 0 THEN event_iter ELSE ce2
            /\ current_event' = ce2
            /\ IF non_window_context # NoCtx
               THEN /\ current_event_contexts' = current_event_contexts
                    /\ Yield(ce2, non_window_context)
               ELSE IF ce2 # 0 /\ WindowContexts(events[ce2]) # {}
                    THEN \E vec \in WindowContexts(events[ce2]) : PopAndYield(ce2, vec)
                    ELSE PopAndYield(ce2, current_event_contexts)
       ELSE /\ UNCHANGED <<event_iter, current_event>>
            /\ PopAndYield(ce1, current_event_contexts)
    /\ UNCHANGED <<window_to_contexts, context_to_window, hovered, focused,
                   reader, events, non_window_context>>
    /\ UNCHANGED notFan

\* The for loop is over and the iterator is dropped.
EndRead ==
    /\ reader # "none" /\ done
    /\ reader' = "none"
    /\ events' = <<>>
    /\ event_iter' = 0
    /\ current_event' = 0
    /\ current_event_contexts' = <<>>
    /\ non_window_context' = NoCtx
    /\ done' = FALSE
    /\ pairs' = NoPairs
    /\ last_yield' = 0
    /\ in_order' = TRUE
    /\ UNCHANGED <<window_to_contexts, context_to_window, hovered, focused>>
    /\ UNCHANGED notFan

EventSeqs == UNION {[1..n -> Windows] : n \in 0..MaxEvents}

FanNext ==
    \/ \E c \in Ctx, w \in Windows : ContextAdded(c, w)
    \/ \E c \in Ctx : ContextRemoved(c)
    \/ \E t \in Ctx \cup {NoCtx} : SetHovered(t)
    \/ FocusFollowsHover
    \/ \E sys \in Systems, evs \in EventSeqs : StartRead(sys, evs)
    \/ IterNext
    \/ EndRead

\* ================================================================== focus
\* EguiInputSet::FocusContext: write_pointer_button_events_system and
\* write_window_touch_events_system queue the commands that insert or remove
\* FocusedNonWindowEguiContext; the commands are applied before ReadBevyEvents.
ButtonSystem == "write_pointer_button_events_system"
TouchSystem == "write_window_touch_events_system"

\* The platform's events as far as the focus logic reads them. Middle, Back
\* and Forward take the path of Right in the match on event.button.
MouseButtons == {"Left", "Right", "Other"}
ButtonStates == {"Pressed", "Released"}
MouseButtonInputs ==
    {ev \in [window : Windows, button : MouseButtons, state : ButtonStates] :
        ev.state = "Released" => ev.button = "Left"}
FocusTouchPhases == {"Started", "Ended"}
FocusTouchInputs == [window : Windows, phase : FocusTouchPhases]

\* The new events of a frame.
ButtonLogs == UNION {[1..n -> MouseButtonInputs] : n \in 0..MaxEvents}
FocusTouchLogs == UNION {[1..n -> FocusTouchInputs] : n \in 0..MaxEvents}

\* With the unread events of both readers the new ones are at most MaxEvents.
FitsFrame(log) ==
    Len(mouse_button_unread) + Len(touch_unread) + Len(log) <= MaxEvents

\* match event.button { .. }: the egui::PointerButton, "None" for any other.
PointerButtonOf(b) ==
    CASE b = "Left" -> "Primary"
      [] b = "Right" -> "Secondary"
      [] b = "Middle" -> "Middle"
      [] b = "Back" -> "Extra1"
      [] b = "Forward" -> "Extra2"
      [] OTHER -> "None"

\* EguiContextsEventIterator::next run over evs from event i on: the index of
\* the event at which it returns None before the events are exhausted (an
\* event without contexts while nothing redirects), Len(evs) + 1 if there is none.
RECURSIVE FirstDead(_, _, _)
FirstDead(evs, nwc, i) ==
    IF i > Len(evs) THEN Len(evs) + 1
    ELSE IF nwc # NoCtx \/ Registered(evs[i].window) # {}
         THEN FirstDead(evs, nwc, i + 1)
         ELSE i

\* What stays in the EventReader for the next frame: the events of this
\* frame the iterator did not take (an event is readable for two frames).
Unread(old, log, dead) ==
    IF dead <= Len(old) THEN log ELSE SubSeq(log, dead - Len(old) + 1, Len(log))

\* The loop body of write_pointer_button_events_system reaches the command
\* for this event.
ButtonQueuesFocus_AnyState(ev) ==
    /\ PointerButtonOf(ev.button) # "None"
    /\ enable_focused_non_window_context_updates
ButtonQueuesFocus(ev) ==
    /\ PointerButtonOf(ev.button) # "None"
    /\ enable_focused_non_window_context_updates /\ ev.state = "Pressed"

\* The loop body of write_window_touch_events_system reaches a command.
TouchQueuesFocus(ev) ==
    enable_focused_non_window_context_updates /\ ev.phase = "Started"

\* Kinds of event, for the frame's record.
ButtonKind(ev) ==
    IF ev.state = "Released" THEN "release"
    ELSE CASE ev.button = "Left" -> "primary_press"
           [] ev.button \in {"Right", "Middle", "Back", "Forward"} -> "secondary_press"
           [] OTHER -> "unknown_press"
TouchKind(ev) == IF ev.phase = "Started" THEN "touch_start" ELSE "touch_other"

\* The frame's record keeps the presses only: a primary-button press or a
\* touch-start, any other press.
LoggedKinds(kinds) ==
    {k \in {"qualifying"} : kinds \cap {"primary_press", "touch_start"} # {}}
        \cup {k \in {"press"} : kinds \cap {"secondary_press", "unknown_press"} # {}}
\* Of the handled events it keeps the presses of a recognised button and the
\* touch-starts.
HandledKinds(kinds) ==
    {k \in {"qualifying"} : kinds \cap {"primary_press", "touch_start"} # {}}
        \cup {k \in {"secondary"} : "secondary_press" \in kinds}

FocusInit ==
    /\ enable_focused_non_window_context_updates = TRUE
    /\ fstage = "InitReading"
    /\ ran = {}
    /\ mouse_button_unread = <<>>
    /\ touch_unread = <<>>
    /\ commands = {}
    /\ frame_log = {}
    /\ handled = {}
    /\ focus_changed = FALSE

notFocus == <<schedVars, iterVars, modVars, touchVars, aggVars, restVars>>

\* EguiPreUpdateSet::InitContexts and EguiInputSet::InitReading: the map
\* follows the contexts, the hit-testing collaborator writes the hover
\* resource, user code may switch the global setting. The hover resource names
\* a non-window context: one that the map does not hold.
InitContextsAdded(c, w) ==
    /\ fstage = "InitReading"
    /\ c \notin {hovered, focused}
    /\ ContextAdded(c, w)
InitReadingHover(t) ==
    /\ fstage = "InitReading"
    /\ t \notin DOMAIN context_to_window
    /\ SetHovered(t)

SetFocusUpdates(b) ==
    /\ fstage = "InitReading"
    /\ enable_focused_non_window_context_updates' = b
    /\ UNCHANGED <<fstage, ran, mouse_button_unread, touch_unread, commands,
                   frame_log, handled, focus_changed>>
    /\ UNCHANGED <<window_to_contexts, context_to_window, hovered, focused>>
    /\ UNCHANGED notFocus

\* write_pointer_button_events_system over the unread events and the frame's
\* new ones; every command of one frame carries the same hover value.
WritePointerButtonEvents(log) ==
    /\ fstage = "InitReading" /\ ran = {}
    /\ FitsFrame(log)
    /\ LET evs == mouse_button_unread \o log
           dead == FirstDead(evs, hovered, 1)
           body == {i \in 1..(dead - 1) : ButtonQueuesFocus(evs[i])}
       IN /\ commands' = IF body = {} THEN commands ELSE commands \cup {hovered}
          /\ handled' = handled \cup HandledKinds({ButtonKind(evs[i]) : i \in 1..(dead - 1)})
          /\ mouse_button_unread' = Unread(mouse_button_unread, log, dead)
    /\ frame_log' = frame_log \cup LoggedKinds({ButtonKind(log[i]) : i \in DOMAIN log})
    /\ fstage' = "FocusContext"
    /\ ran' = ran \cup {ButtonSystem}
    /\ UNCHANGED <<enable_focused_non_window_context_updates, touch_unread, focus_changed>>
    /\ UNCHANGED <<window_to_contexts, context_to_window, hovered, focused>>
    /\ UNCHANGED notFocus

\* write_window_touch_events_system: the part of the loop body before the
\* per-context settings test. The two systems of the set read different
\* events and queue the same command, so a frame ends the same in either
\* order; they run here in the order the set lists them.
WriteWindowTouchEvents(log) ==
    /\ fstage = "FocusContext" /\ ran = {ButtonSystem}
    /\ FitsFrame(log)
    /\ LET evs == touch_unread \o log
           dead == FirstDead(evs, NoCtx, 1)
           body == {i \in 1..(dead - 1) : TouchQueuesFocus(evs[i])}
       IN /\ commands' = IF body = {} THEN commands ELSE commands \cup {hovered}
          /\ handled' = handled \cup HandledKinds({TouchKind(evs[i]) : i \in 1..(dead - 1)})
          /\ touch_unread' = Unread(touch_unread, log, dead)
    /\ frame_log' = frame_log \cup LoggedKinds({TouchKind(log[i]) : i \in DOMAIN log})
    /\ fstage' = "FocusContext"
    /\ ran' = ran \cup {TouchSystem}
    /\ UNCHANGED <<enable_focused_non_window_context_updates, mouse_button_unread,
                   focus_changed>>
    /\ UNCHANGED <<window_to_contexts, context_to_window, hovered, focused>>
    /\ UNCHANGED notFocus

\* The sync point between FocusContext and ReadBevyEvents applies the commands.
ApplyFocusCommands ==
    /\ fstage = "FocusContext" /\ ran = {ButtonSystem, TouchSystem}
    /\ focused' = IF commands = {} THEN focused ELSE CHOOSE t \in commands : TRUE
    /\ focus_changed' = (focused' # focused)
    /\ commands' = {}
    /\ fstage' = "ReadBevyEvents"
    /\ UNCHANGED <<enable_focused_non_window_context_updates, ran, mouse_button_unread,
                   touch_unread, frame_log, handled>>
    /\ UNCHANGED <<window_to_contexts, context_to_window, hovered>>
    /\ UNCHANGED notFocus

\* The rest of the frame does not touch the focus resource.
FocusFrameEnd ==
    /\ fstage = "ReadBevyEvents"
    /\ fstage' = "InitReading"
    /\ ran' = {}
    /\ frame_log' = {}
    /\ handled' = {}
    /\ focus_changed' = FALSE
    /\ UNCHANGED <<enable_focused_non_window_context_updates, mouse_button_unread,
                   touch_unread, commands>>
    /\ UNCHANGED <<window_to_contexts, context_to_window, hovered, focused>>
    /\ UNCHANGED notFocus

FocusNext ==
    \/ \E c \in Ctx, w \in Windows : InitContextsAdded(c, w)
    \/ \E t \in Ctx \cup {NoCtx} : InitReadingHover(t)
    \/ \E b \in BOOLEAN : SetFocusUpdates(b)
    \/ \E log \in ButtonLogs : WritePointerButtonEvents(log)
    \/ \E log \in FocusTouchLogs : WriteWindowTouchEvents(log)
    \/ ApplyFocusCommands
    \/ FocusFrameEnd


\* ------------------------------------------------------------------------
\* The two systems of EguiInputSet::FocusContext are not ordered against each
\* other. Each queues its commands in its own buffer, in the order of the
\* events it reads; the sync point applies the buffers in the order the
\* systems ran.
Insert(sys, c) == [op |-> "insert_resource", context |-> c, system |-> sys]
Remove(sys) == [op |-> "remove_resource", context |-> NoCtx, system |-> sys]

\* if let Some(hovered) = &hovered_non_window_egui_context { insert } else { remove }
ButtonCommand(hov) ==
    IF hov # NoCtx THEN Insert(ButtonSystem, hov) ELSE Remove(ButtonSystem)

\* if let Some(hovered) = .. { insert; continue; } remove_resource
TouchCommand_AlwaysRemove(hov) == Remove(TouchSystem)
TouchCommand(hov) ==
    IF hov # NoCtx THEN Insert(TouchSystem, hov) ELSE Remove(TouchSystem)

\* The FocusedNonWindowEguiContext resource after one command, after a queue.
ApplyCommand(slot, cmd) == IF cmd.op = "insert_resource" THEN cmd.context ELSE NoCtx
RECURSIVE ApplyQueue(_, _)
ApplyQueue(slot, q) ==
    IF q = <<>> THEN slot ELSE ApplyQueue(ApplyCommand(slot, Head(q)), Tail(q))

OrderInit ==
    /\ command_queue = <<>>
    /\ swapped_queue = <<>>

WritePointerButtonEventsUnordered(log) ==
    /\ fstage \in {"InitReading", "FocusContext"} /\ ButtonSystem \notin ran
    /\ FitsFrame(log)
    /\ LET evs == mouse_button_unread \o log
           dead == FirstDead(evs, hovered, 1)
           body == {i \in 1..(dead - 1) : ButtonQueuesFocus(evs[i])}
           mine == [i \in 1..Cardinality(body) |-> ButtonCommand(hovered)]
       IN /\ command_queue' = command_queue \o mine
          /\ swapped_queue' = mine \o command_queue
          /\ mouse_button_unread' = Unread(mouse_button_unread, log, dead)
    /\ fstage' = "FocusContext"
    /\ ran' = ran \cup {ButtonSystem}
    /\ UNCHANGED <<enable_focused_non_window_context_updates, touch_unread, commands,
                   frame_log, handled, focus_changed>>
    /\ UNCHANGED <<window_to_contexts, context_to_window, hovered, focused>>
    /\ UNCHANGED <<schedVars, iterVars, modVars, touchVars, aggVars, stampVars, dndVars,
                   wantsVars, texVars, idxVars, imeVars>>

WriteWindowTouchEventsUnordered(log) ==
    /\ fstage \in {"InitReading", "FocusContext"} /\ TouchSystem \notin ran
    /\ FitsFrame(log)
    /\ LET evs == touch_unread \o log
           dead == FirstDead(evs, NoCtx, 1)
           body == {i \in 1..(dead - 1) : TouchQueuesFocus(evs[i])}
           mine == [i \in 1..Cardinality(body) |-> TouchCommand(hovered)]
       IN /\ command_queue' = command_queue \o mine
          /\ swapped_queue' = mine \o command_queue
          /\ touch_unread' = Unread(touch_unread, log, dead)
    /\ fstage' = "FocusContext"
    /\ ran' = ran \cup {TouchSystem}
    /\ UNCHANGED <<enable_focused_non_window_context_updates, mouse_button_unread,
                   commands, frame_log, handled, focus_changed>>
    /\ UNCHANGED <<window_to_contexts, context_to_window, hovered, focused>>
    /\ UNCHANGED <<schedVars, iterVars, modVars, touchVars, aggVars, stampVars, dndVars,
                   wantsVars, texVars, idxVars, imeVars>>

\* The sync point between FocusContext and ReadBevyEvents applies the queue.
ApplyQueuedFocusCommands ==
    /\ fstage = "FocusContext" /\ ran = {ButtonSystem, TouchSystem}
    /\ focused' = ApplyQueue(focused, command_queue)
    /\ focus_changed' = (focused' # focused)
    /\ command_queue' = <<>>
    /\ swapped_queue' = <<>>
    /\ fstage' = "ReadBevyEvents"
    /\ UNCHANGED <<enable_focused_non_window_context_updates, ran, mouse_button_unread,
                   touch_unread, commands, frame_log, handled>>
    /\ UNCHANGED <<window_to_contexts, context_to_window, hovered>>
    /\ UNCHANGED <<schedVars, iterVars, modVars, touchVars, aggVars, stampVars, dndVars,
                   wantsVars, texVars, idxVars, imeVars>>

FocusOrderNext ==
    \/ \E c \in Ctx, w \in Windows : InitContextsAdded(c, w)
    \/ \E t \in Ctx \cup {NoCtx} : InitReadingHover(t)
    \/ \E b \in BOOLEAN : SetFocusUpdates(b)
    \/ \E log \in ButtonLogs : WritePointerButtonEventsUnordered(log)
    \/ \E log \in FocusTouchLogs : WriteWindowTouchEventsUnordered(log)
    \/ ApplyQueuedFocusCommands
    \/ FocusFrameEnd

\* ============================================================== modifiers
\* write_modifiers_keys_state_system (InitReading) and the text gate of
\* write_keyboard_input_events_system (ReadBevyEvents), for the events that
\* reach one context.
\* Key::Meta takes the path of Key::Super, Key::Space that of a printable
\* Key::Character.
LogicalKeys == {"Shift", "Control", "Alt", "Super", "Character"}
\* A KeyboardFocusLost event in the frame's log: it carries no key.
FocusLost == [logical_key |-> "KeyboardFocusLost", state |-> "KeyboardFocusLost"]
KeyboardInputs == [logical_key : LogicalKeys, state : ButtonStates]
KeyboardLogs == UNION {[1..n -> KeyboardInputs \cup {FocusLost}] : n \in 0..MaxEvents}

\* ModifierKeysState::reset.
reset(st) == [st EXCEPT !.shift = FALSE, !.ctrl = FALSE, !.alt = FALSE, !.win = FALSE]

\* ModifierKeysState::text_input_is_allowed.
text_input_is_allowed_CtrlOnly(st) == ~st.ctrl \/ (~st.is_macos /\ st.ctrl /\ st.alt)
text_input_is_allowed_NoAltGr(st) == ~st.win /\ ~st.ctrl
text_input_is_allowed(st) ==
    (~st.win /\ ~st.ctrl) \/ (~st.is_macos /\ st.ctrl /\ st.alt)

\* The match on logical_key for one KeyboardInput event.
ApplyKey(st, ev) ==
    CASE ev.logical_key = "Shift" -> [st EXCEPT !.shift = (ev.state = "Pressed")]
      [] ev.logical_key = "Control" -> [st EXCEPT !.ctrl = (ev.state = "Pressed")]
      [] ev.logical_key = "Alt" -> [st EXCEPT !.alt = (ev.state = "Pressed")]
      [] ev.logical_key \in {"Super", "Meta"} -> [st EXCEPT !.win = (ev.state = "Pressed")]
      [] OTHER -> st

\* for event in ev_keyboard_input.read() { .. } over evs from event i on.
RECURSIVE ApplyKeys(_, _, _)
ApplyKeys(st, evs, i) ==
    IF i > Len(evs) THEN st ELSE ApplyKeys(ApplyKey(st, evs[i]), evs, i + 1)

\* The events of each of the two readers, in the order they were sent.
IsKey(ev) == ev # FocusLost
IsFocusLost(ev) == ev = FocusLost

ModsInit ==
    /\ modifier_keys_state =
           [shift |-> FALSE, ctrl |-> FALSE, alt |-> FALSE, win |-> FALSE,
            is_macos |-> FALSE]
    /\ mstage = "build"
    /\ keyboard_log = <<>>
    /\ text_events = {}

notMods == <<schedVars, fanVars, focusVars, touchVars, aggVars, restVars>>

\* app.init_resource::<ModifierKeysState>(): Default reads the platform.
InitModifierKeysState(mac) ==
    /\ mstage = "build"
    /\ modifier_keys_state' = [modifier_keys_state EXCEPT !.is_macos = mac]
    /\ mstage' = "InitReading"
    /\ UNCHANGED <<keyboard_log, text_events>>
    /\ UNCHANGED notMods

\* write_modifiers_keys_state_system for the events of one frame.
WriteModifiersKeysState(log) ==
    /\ mstage = "InitReading"
    /\ LET ev_focus == SelectSeq(log, IsFocusLost)
           ev_keyboard_input == SelectSeq(log, IsKey)
           st == IF ev_focus # <<>> THEN reset(modifier_keys_state)
                 ELSE modifier_keys_state
       IN modifier_keys_state' = ApplyKeys(st, ev_keyboard_input, 1)
    /\ keyboard_log' = log
    /\ mstage' = "ReadBevyEvents"
    /\ UNCHANGED text_events
    /\ UNCHANGED notMods

\* write_keyboard_input_events_system: which events make the loop body write
\* an egui::Event::Text.
WriteKeyboardInputEvents ==
    /\ mstage = "ReadBevyEvents"
    /\ text_events' =
           {i \in DOMAIN keyboard_log :
               /\ IsKey(keyboard_log[i])
               /\ text_input_is_allowed(modifier_keys_state)
               /\ keyboard_log[i].state = "Pressed"
               /\ keyboard_log[i].logical_key \in {"Character", "Space"}}
    /\ mstage' = "WriteEguiEvents"
    /\ UNCHANGED <<modifier_keys_state, keyboard_log>>
    /\ UNCHANGED notMods

\* The frame ends: the events are read, the written ones consumed.
ModsFrameEnd ==
    /\ mstage = "WriteEguiEvents"
    /\ keyboard_log' = <<>>
    /\ text_events' = {}
    /\ mstage' = "InitReading"
    /\ UNCHANGED modifier_keys_state
    /\ UNCHANGED notMods

ModsNext ==
    \/ \E mac \in BOOLEAN : InitModifierKeysState(mac)
    \/ \E log \in KeyboardLogs : WriteModifiersKeysState(log)
    \/ WriteKeyboardInputEvents
    \/ ModsFrameEnd

\* ================================================================== touch
\* write_touch_event, as called for one (event, context) pair by
\* write_window_touch_events_system and write_non_window_touch_events_system.
TouchIds == {"A", "B"}
NoTouch == "None"       \* pointer_touch_id: None
TouchPhases == {"Started", "Moved", "Ended", "Canceled"}
Positions == {"P", "Q"}
TouchInputs == [id : TouchIds, phase : TouchPhases, position : Positions]

\* The egui events the function writes.
NoField == "-"
Touch(id, phase, pos) ==
    [kind |-> "Touch", id |-> id, phase |-> phase, pos |-> pos, pressed |-> NoField]
PointerMoved(pos) ==
    [kind |-> "PointerMoved", id |-> NoField, phase |-> NoField, pos |-> pos,
     pressed |-> NoField]
PointerButton(pos, pressed) ==
    [kind |-> "PointerButton", id |-> NoField, phase |-> NoField, pos |-> pos,
     pressed |-> pressed]
PointerGone ==
    [kind |-> "PointerGone", id |-> NoField, phase |-> NoField, pos |-> NoField,
     pressed |-> NoField]

\* match event.phase in the egui::Event::Touch that is always written.
EguiTouchPhase(phase) ==
    CASE phase = "Started" -> "Start"
      [] phase = "Moved" -> "Move"
      [] phase = "Ended" -> "End"
      [] phase = "Canceled" -> "Cancel"

\* The test guarding the emulation: no touch is being translated, or this one is.
Emulates_Always(active, ev) == TRUE
Emulates(active, ev) == active = NoTouch \/ active = ev.id

\* The pointer events of the emulation's match on event.phase.
EmulatedEvents_EndAsCancel(ev) ==
    CASE ev.phase = "Started" ->
             <<PointerMoved(ev.position), PointerButton(ev.position, "true")>>
      [] ev.phase = "Moved" -> <<PointerMoved(ev.position)>>
      [] ev.phase \in {"Ended", "Canceled"} -> <<PointerGone>>
EmulatedEvents_CancelAsEnd(ev) ==
    CASE ev.phase = "Started" ->
             <<PointerMoved(ev.position), PointerButton(ev.position, "true")>>
      [] ev.phase = "Moved" -> <<PointerMoved(ev.position)>>
      [] ev.phase \in {"Ended", "Canceled"} ->
             <<PointerButton(ev.position, "false"), PointerGone>>
EmulatedEvents(ev) ==
    CASE ev.phase = "Started" ->
             <<PointerMoved(ev.position), PointerButton(ev.position, "true")>>
      [] ev.phase = "Moved" -> <<PointerMoved(ev.position)>>
      [] ev.phase = "Ended" -> <<PointerButton(ev.position, "false"), PointerGone>>
      [] ev.phase = "Canceled" -> <<PointerGone>>

\* pointer_touch_id after the emulation's match on event.phase.
EmulatedTouchId(active, ev) ==
    CASE ev.phase = "Started" -> ev.id
      [] ev.phase = "Moved" -> active
      [] ev.phase \in {"Ended", "Canceled"} -> NoTouch

NoCall == [context |-> NoCtx, id |-> NoField, phase |-> NoField, position |-> NoField,
           active |-> NoField, written |-> <<>>]

TouchInit ==
    /\ pointer_touch_id = [c \in Ctx |-> NoTouch]
    /\ prev_call = NoCall
    /\ last_call = NoCall

notTouch == <<schedVars, fanVars, focusVars, modVars, aggVars, restVars>>

\* write_touch_event(writer, event, context, .., pointer_position, ..).
WriteTouchEvent(c, ev) ==
    /\ LET active == pointer_touch_id[c]
           raw == <<Touch(ev.id, EguiTouchPhase(ev.phase), ev.position)>>
           written == IF Emulates(active, ev) THEN raw \o EmulatedEvents(ev) ELSE raw
       IN /\ pointer_touch_id' =
                 [pointer_touch_id EXCEPT ![c] =
                     IF Emulates(active, ev) THEN EmulatedTouchId(active, ev) ELSE active]
          /\ last_call' = [context |-> c, id |-> ev.id, phase |-> ev.phase,
                           position |-> ev.position, active |-> active,
                           written |-> written]
    /\ prev_call' = last_call
    /\ UNCHANGED notTouch

TouchNext == \E c \in Ctx, ev \in TouchInputs : WriteTouchEvent(c, ev)

\* ============================================================= aggregator
\* write_egui_input_system: the EguiInputEvent loop. The events are told
\* apart by their payload.
EguiEvents == {"x", "y"}
EguiInputEvents == [context : Ctx, event : EguiEvents]

\* egui_input.events.push(event.clone()).
Push_Front(buf, e) == <<e>> \o buf
Push(buf, e) == Append(buf, e)

\* egui_contexts.get_mut(*context) is Ok.
HasInput(c) == alive[c]

\* for EguiInputEvent { context, event } in egui_input_event_reader.read()
\* { .. }, from event i on, over the buffers bufs.
RECURSIVE PushAll_StopAtMiss(_, _, _)
PushAll_StopAtMiss(bufs, q, i) ==
    IF i > Len(q) THEN bufs
    ELSE IF HasInput(q[i].context)
         THEN PushAll_StopAtMiss([bufs EXCEPT ![q[i].context] = Push(@, q[i].event)],
                                 q, i + 1)
         ELSE bufs
RECURSIVE PushAll(_, _, _)
PushAll(bufs, q, i) ==
    IF i > Len(q) THEN bufs
    ELSE IF HasInput(q[i].context)
         THEN PushAll([bufs EXCEPT ![q[i].context] = Push(@, q[i].event)], q, i + 1)
         ELSE PushAll(bufs, q, i + 1)

NoEvents == [c \in Ctx |-> <<>>]

\* egui_input.take(): the events handed to the pass and those left behind.
Take_Clone(buf) == [out |-> buf, rest |-> buf]
Take(buf) == [out |-> buf, rest |-> <<>>]

AggInit ==
    /\ egui_input_event_reader = <<>>
    /\ egui_input_events = NoEvents
    /\ appended = NoEvents
    /\ astage = "ReadBevyEvents"
    /\ carried = NoEvents
    /\ begun = {}
    /\ handed = NoEvents

notAgg == <<multipass_schedule, run_manually, primary, input, full_output, stage,
            multipass_contexts, used_schedules, cur, steps, invocations, reruns,
            fanVars, focusVars, modVars, touchVars, restVars>>

\* A context entity is spawned, or despawned with its EguiInput, before the
\* aggregator runs.
AggSpawn(c) ==
    /\ astage = "ReadBevyEvents" /\ ~alive[c]
    /\ alive' = [alive EXCEPT ![c] = TRUE]
    /\ UNCHANGED aggVars
    /\ UNCHANGED notAgg

AggDespawn(c) ==
    /\ astage = "ReadBevyEvents" /\ alive[c]
    /\ alive' = [alive EXCEPT ![c] = FALSE]
    /\ egui_input_events' = [egui_input_events EXCEPT ![c] = <<>>]
    /\ carried' = [carried EXCEPT ![c] = <<>>]
    /\ UNCHANGED <<egui_input_event_reader, appended, astage, begun, handed>>
    /\ UNCHANGED notAgg

\* A translator system writes one EguiInputEvent.
WriteEguiInputEvent(ev) ==
    /\ astage = "ReadBevyEvents"
    /\ Len(egui_input_event_reader) < MaxEvents
    /\ egui_input_event_reader' = Append(egui_input_event_reader, ev)
    /\ UNCHANGED <<alive, egui_input_events, appended, astage, carried, begun, handed>>
    /\ UNCHANGED notAgg

\* write_egui_input_system.
WriteEguiInputSystem ==
    /\ astage = "ReadBevyEvents"
    /\ appended' = PushAll(NoEvents, egui_input_event_reader, 1)
    /\ egui_input_events' = PushAll(egui_input_events, egui_input_event_reader, 1)
    /\ astage' = "BeginPass"
    /\ UNCHANGED <<alive, egui_input_event_reader, carried, begun, handed>>
    /\ UNCHANGED notAgg

\* The Begin of the context's pass in this frame: ctx.begin_pass(egui_input.take())
\* in begin_pass_system, egui_context.input.take() in the pass loop.
TakeInput(c) ==
    /\ astage = "BeginPass" /\ alive[c] /\ c \notin begun
    /\ egui_input_events' = [egui_input_events EXCEPT ![c] = Take(@).rest]
    /\ handed' = [handed EXCEPT ![c] = Take(egui_input_events[c]).out]
    /\ begun' = begun \cup {c}
    /\ UNCHANGED <<alive, egui_input_event_reader, appended, astage, carried>>
    /\ UNCHANGED notAgg

\* The frame ends; a buffer that no pass took keeps its events.
AggFrameEnd ==
    /\ astage = "BeginPass"
    /\ \A c \in Ctx : Len(egui_input_events[c]) <= MaxPending
    /\ egui_input_event_reader' = <<>>
    /\ appended' = NoEvents
    /\ astage' = "ReadBevyEvents"
    /\ carried' = egui_input_events
    /\ begun' = {}
    /\ handed' = NoEvents
    /\ UNCHANGED <<alive, egui_input_events>>
    /\ UNCHANGED notAgg

AggNext ==
    \/ \E c \in Ctx : AggSpawn(c)
    \/ \E c \in Ctx : AggDespawn(c)
    \/ \E ev \in EguiInputEvents : WriteEguiInputEvent(ev)
    \/ WriteEguiInputSystem
    \/ \E c \in Ctx : TakeInput(c)
    \/ AggFrameEnd

\* =============================================================== stamping
\* write_egui_input_system, the loop over the contexts that stamps focused,
\* modifiers and time on every EguiInput. The three loops of the system write
\* different fields of EguiInput.
NoWindow == 0           \* the context's camera does not render to a window
WindowStates == {"none", "unfocused", "focused"}

\* context_to_window.get(&entity).and_then(|w| windows.get_some(*w))
\*     .is_some_and(|window| window.focused)
WindowFocused(c) ==
    /\ c \in DOMAIN context_to_window
    /\ window_focus[context_to_window[c]] = "focused"

\* focused_non_window_egui_context.as_deref().map_or_else(.., ..) for entity c.
FocusedStamp_WindowToo(target, c) == target = c \/ WindowFocused(c)
FocusedStamp(target, c) == IF target = NoCtx THEN WindowFocused(c) ELSE target = c

StampInit ==
    /\ window_focus = [w \in Windows |-> "unfocused"]
    /\ egui_input_focused = [c \in Ctx |-> TRUE]
    /\ sstage = "InitContexts"

notStamp == <<schedRest, hovered, iterVars, focusVars, modVars, touchVars, aggVars,
              dndVars, wantsVars, texVars, lateVars>>

\* A context entity is spawned; on_egui_context_added_system registers it
\* when its camera renders to window w. A new EguiInput is focused.
StampSpawn(c, w) ==
    /\ sstage = "InitContexts" /\ ~alive[c]
    /\ alive' = [alive EXCEPT ![c] = TRUE]
    /\ IF w = NoWindow
       THEN UNCHANGED <<window_to_contexts, context_to_window>>
       ELSE /\ window_to_contexts' = Put(window_to_contexts, w, Registered(w) \cup {c})
            /\ context_to_window' = Put(context_to_window, c, w)
    /\ egui_input_focused' = [egui_input_focused EXCEPT ![c] = TRUE]
    /\ UNCHANGED <<focused, window_focus, sstage>>
    /\ UNCHANGED notStamp

\* A context entity is despawned; on_egui_context_removed_system drops it
\* from the maps. The focus resource is left as it is.
StampDespawn(c) ==
    /\ sstage = "InitContexts" /\ alive[c]
    /\ alive' = [alive EXCEPT ![c] = FALSE]
    /\ IF c \notin DOMAIN context_to_window
       THEN UNCHANGED <<window_to_contexts, context_to_window>>
       ELSE /\ context_to_window' = Drop(context_to_window, c)
            /\ window_to_contexts' =
                   [window_to_contexts EXCEPT ![context_to_window[c]] = @ \ {c}]
    /\ egui_input_focused' = [egui_input_focused EXCEPT ![c] = TRUE]
    /\ UNCHANGED <<focused, window_focus, sstage>>
    /\ UNCHANGED notStamp

\* The commands of EguiInputSet::FocusContext insert FocusedNonWindowEguiContext
\* with the hovered entity, or remove it.
SetFocused(t) ==
    /\ sstage = "InitContexts"
    /\ focused' = t
    /\ UNCHANGED <<alive, window_to_contexts, context_to_window, window_focus,
                   egui_input_focused, sstage>>
    /\ UNCHANGED notStamp

\* The platform focuses, unfocuses or closes a window.
SetWindowFocus(w, v) ==
    /\ sstage = "InitContexts"
    /\ window_focus' = [window_focus EXCEPT ![w] = v]
    /\ UNCHANGED <<alive, window_to_contexts, context_to_window, focused,
                   egui_input_focused, sstage>>
    /\ UNCHANGED notStamp

\* write_egui_input_system: for (entity, mut egui_input) in egui_contexts.iter_mut().
StampContexts ==
    /\ sstage = "InitContexts"
    /\ egui_input_focused' =
           [c \in Ctx |-> IF alive[c] THEN FocusedStamp(focused, c)
                          ELSE egui_input_focused[c]]
    /\ sstage' = "BeginPass"
    /\ UNCHANGED <<alive, window_to_contexts, context_to_window, focused, window_focus>>
    /\ UNCHANGED notStamp

\* The passes read the stamps; the frame ends.
StampFrameEnd ==
    /\ sstage = "BeginPass"
    /\ sstage' = "InitContexts"
    /\ UNCHANGED <<alive, window_to_contexts, context_to_window, focused, window_focus,
                   egui_input_focused>>
    /\ UNCHANGED notStamp

StampNext ==
    \/ \E c \in Ctx, w \in Windows \cup {NoWindow} : StampSpawn(c, w)
    \/ \E c \in Ctx : StampDespawn(c)
    \/ \E t \in Ctx \cup {NoCtx} : SetFocused(t)
    \/ \E w \in Windows, v \in WindowStates : SetWindowFocus(w, v)
    \/ StampContexts
    \/ StampFrameEnd

\* ====================================================== file drag and drop
\* write_egui_input_system, the EguiFileDragAndDropEvent loop.
DndKinds == {"DroppedFile", "HoveredFile", "HoveredFileCanceled"}
EguiFileDragAndDropEvents == [context : Ctx, event : DndKinds]
File == "f"             \* the egui::DroppedFile / egui::HoveredFile made of path_buf

\* match event { .. } on the hovered and dropped files of one EguiInput.
ApplyFileDnd_DropKeepsHover(files, kind) ==
    CASE kind = "DroppedFile" ->
             [hovered |-> files.hovered, dropped |-> Append(files.dropped, File)]
      [] kind = "HoveredFile" ->
             [hovered |-> Append(files.hovered, File), dropped |-> files.dropped]
      [] kind = "HoveredFileCanceled" ->
             [hovered |-> <<>>, dropped |-> files.dropped]
ApplyFileDnd(files, kind) ==
    CASE kind = "DroppedFile" ->
             [hovered |-> <<>>, dropped |-> Append(files.dropped, File)]
      [] kind = "HoveredFile" ->
             [hovered |-> Append(files.hovered, File), dropped |-> files.dropped]
      [] kind = "HoveredFileCanceled" ->
             [hovered |-> <<>>, dropped |-> files.dropped]

\* for EguiFileDragAndDropEvent { context, event } in
\* egui_file_dnd_event_reader.read() { .. }, from event i on.
RECURSIVE FileDndAll(_, _, _)
FileDndAll(files, q, i) ==
    IF i > Len(q) THEN files
    ELSE IF HasInput(q[i].context)
         THEN FileDndAll([files EXCEPT ![q[i].context] = ApplyFileDnd(@, q[i].event)],
                         q, i + 1)
         ELSE FileDndAll(files, q, i + 1)

\* The two lists of every EguiInput.
Files == [c \in Ctx |-> [hovered |-> hovered_files[c], dropped |-> dropped_files[c]]]

DndInit ==
    /\ egui_file_dnd_event_reader = <<>>
    /\ hovered_files = NoEvents
    /\ dropped_files = NoEvents
    /\ files_before = [c \in Ctx |-> [hovered |-> <<>>, dropped |-> <<>>]]
    /\ dstage = "ReadBevyEvents"

notDnd == <<schedRest, fanVars, focusVars, modVars, touchVars, aggVars, stampVars,
            wantsVars, texVars, lateVars>>

\* A context entity is spawned, or despawned with its EguiInput.
DndSpawn(c) ==
    /\ dstage = "ReadBevyEvents" /\ ~alive[c]
    /\ alive' = [alive EXCEPT ![c] = TRUE]
    /\ UNCHANGED dndVars
    /\ UNCHANGED notDnd

DndDespawn(c) ==
    /\ dstage = "ReadBevyEvents" /\ alive[c]
    /\ alive' = [alive EXCEPT ![c] = FALSE]
    /\ hovered_files' = [hovered_files EXCEPT ![c] = <<>>]
    /\ dropped_files' = [dropped_files EXCEPT ![c] = <<>>]
    /\ UNCHANGED <<egui_file_dnd_event_reader, files_before, dstage>>
    /\ UNCHANGED notDnd

\* write_file_dnd_events_system writes one EguiFileDragAndDropEvent.
WriteFileDndEvent(ev) ==
    /\ dstage = "ReadBevyEvents"
    /\ Len(egui_file_dnd_event_reader) < MaxEvents
    /\ egui_file_dnd_event_reader' = Append(egui_file_dnd_event_reader, ev)
    /\ UNCHANGED <<alive, hovered_files, dropped_files, files_before, dstage>>
    /\ UNCHANGED notDnd

\* write_egui_input_system, second loop.
ReadFileDndEvents ==
    /\ dstage = "ReadBevyEvents"
    /\ LET after == FileDndAll(Files, egui_file_dnd_event_reader, 1) IN
        /\ hovered_files' = [c \in Ctx |-> after[c].hovered]
        /\ dropped_files' = [c \in Ctx |-> after[c].dropped]
    /\ files_before' = Files
    /\ dstage' = "BeginPass"
    /\ UNCHANGED <<alive, egui_file_dnd_event_reader>>
    /\ UNCHANGED notDnd

\* The pass takes the input: the dropped files are moved out, the hovered
\* files stay until a drop or a cancel; the frame ends.
DndFrameEnd ==
    /\ dstage = "BeginPass"
    /\ \A c \in Ctx : Len(hovered_files[c]) <= MaxPending
    /\ egui_file_dnd_event_reader' = <<>>
    /\ dropped_files' = NoEvents
    /\ files_before' = [c \in Ctx |-> [hovered |-> <<>>, dropped |-> <<>>]]
    /\ dstage' = "ReadBevyEvents"
    /\ UNCHANGED <<alive, hovered_files>>
    /\ UNCHANGED notDnd

DndNext ==
    \/ \E c \in Ctx : DndSpawn(c)
    \/ \E c \in Ctx : DndDespawn(c)
    \/ \E ev \in EguiFileDragAndDropEvents : WriteFileDndEvent(ev)
    \/ ReadFileDndEvents
    \/ DndFrameEnd

\* ================================================================== wants
\* The five answers egui gives for a context, and the five fields of the
\* EguiWantsInput resource.
Flags == {"is_pointer_over_area", "wants_pointer_input", "is_using_pointer",
          "wants_keyboard_input", "is_popup_open"}

\* EguiWantsInput::default(): every field false.
NoWants == [f \in Flags |-> FALSE]

\* EguiWantsInput::reset.
EguiWantsInput_reset_Keep(w) == w
EguiWantsInput_reset(w) == [f \in Flags |-> FALSE]

\* EguiWantsInput::wants_any_pointer_input / wants_any_keyboard_input.
wants_any_pointer_input_NoPopup(w) ==
    w.is_pointer_over_area \/ w.wants_pointer_input \/ w.is_using_pointer
wants_any_pointer_input(w) ==
    \/ w.is_pointer_over_area
    \/ w.wants_pointer_input
    \/ w.is_using_pointer
    \/ w.is_popup_open

wants_any_keyboard_input(w) == w.wants_keyboard_input \/ w.is_popup_open

\* write_egui_wants_input_system, the loop over the query from its i-th item:
\* every field is or-ed with the context's answer.
RECURSIVE OrWants(_, _, _)
OrWants(w, order, i) ==
    IF i > Len(order) THEN w
    ELSE OrWants([f \in Flags |-> w[f] \/ ctx_wants[order[i]][f]], order, i + 1)

WantsInit ==
    /\ ctx_wants = [c \in Ctx |-> NoWants]
    /\ egui_wants_input = NoWants
    /\ absorbed = [ran |-> FALSE, keyboard |-> FALSE, pointer |-> FALSE]
    /\ wstage = "PreUpdate"

notWants == <<schedRest, fanVars, focusVars, modVars, touchVars, aggVars, stampVars,
              dndVars, texVars, lateVars>>

\* absorb_bevy_input_system, run when enable_absorb_bevy_input_system is set:
\* what it clears is decided by the two derived answers.
AbsorbBevyInput(enabled) ==
    /\ wstage = "PreUpdate"
    /\ absorbed' = IF enabled
                   THEN [ran |-> TRUE,
                         keyboard |-> wants_any_keyboard_input(egui_wants_input),
                         pointer |-> wants_any_pointer_input(egui_wants_input)]
                   ELSE [ran |-> FALSE, keyboard |-> FALSE, pointer |-> FALSE]
    /\ wstage' = "Update"
    /\ UNCHANGED <<alive, ctx_wants, egui_wants_input>>
    /\ UNCHANGED notWants

\* The frame's update: a context is spawned, or despawned with its egui
\* state, or the pass of one context changes one of egui's answers for it.
WantsSpawn(c) ==
    /\ wstage = "Update" /\ ~alive[c]
    /\ alive' = [alive EXCEPT ![c] = TRUE]
    /\ wstage' = "PostUpdate"
    /\ UNCHANGED <<ctx_wants, egui_wants_input, absorbed>>
    /\ UNCHANGED notWants

WantsDespawn(c) ==
    /\ wstage = "Update" /\ alive[c]
    /\ alive' = [alive EXCEPT ![c] = FALSE]
    /\ ctx_wants' = [ctx_wants EXCEPT ![c] = NoWants]
    /\ wstage' = "PostUpdate"
    /\ UNCHANGED <<egui_wants_input, absorbed>>
    /\ UNCHANGED notWants

EguiPass(c, f, b) ==
    /\ wstage = "Update" /\ alive[c]
    /\ ctx_wants' = [ctx_wants EXCEPT ![c][f] = b]
    /\ wstage' = "PostUpdate"
    /\ UNCHANGED <<alive, egui_wants_input, absorbed>>
    /\ UNCHANGED notWants

\* write_egui_wants_input_system: reset, then the loop over the contexts of
\* the query, in the (arbitrary) query order.
WriteEguiWantsInput ==
    /\ wstage = "PostUpdate"
    /\ \E order \in Orders({c \in Ctx : alive[c]}) :
           egui_wants_input' = OrWants(EguiWantsInput_reset(egui_wants_input), order, 1)
    /\ wstage' = "PreUpdate"
    /\ UNCHANGED <<alive, ctx_wants, absorbed>>
    /\ UNCHANGED notWants

WantsNext ==
    \/ \E enabled \in BOOLEAN : AbsorbBevyInput(enabled)
    \/ \E c \in Ctx : WantsSpawn(c)
    \/ \E c \in Ctx : WantsDespawn(c)
    \/ \E c \in Ctx, f \in Flags, b \in BOOLEAN : EguiPass(c, f, b)
    \/ WriteEguiWantsInput

\* =============================================================== textures
Handles == 1..NumHandles
NoId == 0 - 1        \* Option<u64>::None

\* EguiUserTextures::default().
DefaultTextures == [textures |-> [h \in Handles |-> NoId], free_list |-> <<0>>]

Table == [textures |-> textures, free_list |-> free_list]

\* EguiUserTextures::add_image: the table after the call, the id returned and
\* whether pop().expect(..) panicked. (checked_add cannot overflow: an id is
\* never above the number of handles.)
add_image_Always(t, image) ==
    LET id == t.free_list[Len(t.free_list)]
        popped == SubSeq(t.free_list, 1, Len(t.free_list) - 1)
    IN  IF t.free_list = <<>>
        THEN [textures |-> t.textures, free_list |-> t.free_list, id |-> NoId,
              panicked |-> TRUE]
        ELSE [textures |-> [t.textures EXCEPT ![image] = id],
              free_list |-> IF popped = <<>> THEN <<id + 1>> ELSE popped,
              id |-> id, panicked |-> FALSE]
add_image_NoRefill(t, image) ==
    IF t.textures[image] # NoId
    THEN [textures |-> t.textures, free_list |-> t.free_list,
          id |-> t.textures[image], panicked |-> FALSE]
    ELSE IF t.free_list = <<>>
    THEN [textures |-> t.textures, free_list |-> t.free_list, id |-> NoId,
          panicked |-> TRUE]
    ELSE LET id == t.free_list[Len(t.free_list)]
             popped == SubSeq(t.free_list, 1, Len(t.free_list) - 1)
         IN  [textures |-> [t.textures EXCEPT ![image] = id],
              free_list |-> popped, id |-> id, panicked |-> FALSE]
add_image(t, image) ==
    IF t.textures[image] # NoId
    THEN [textures |-> t.textures, free_list |-> t.free_list,
          id |-> t.textures[image], panicked |-> FALSE]
    ELSE IF t.free_list = <<>>
    THEN [textures |-> t.textures, free_list |-> t.free_list, id |-> NoId,
          panicked |-> TRUE]
    ELSE LET id == t.free_list[Len(t.free_list)]
             popped == SubSeq(t.free_list, 1, Len(t.free_list) - 1)
         IN  [textures |-> [t.textures EXCEPT ![image] = id],
              free_list |-> IF popped = <<>> THEN <<id + 1>> ELSE popped,
              id |-> id, panicked |-> FALSE]

\* EguiUserTextures::remove_image.
remove_image_Front(t, image) ==
    LET id == t.textures[image] IN
        [textures |-> [t.textures EXCEPT ![image] = NoId],
         free_list |-> IF id # NoId THEN <<id>> \o t.free_list ELSE t.free_list,
         id |-> id, panicked |-> FALSE]
remove_image_KeepEntry(t, image) ==
    LET id == t.textures[image] IN
        [textures |-> t.textures,
         free_list |-> IF id # NoId THEN Append(t.free_list, id) ELSE t.free_list,
         id |-> id, panicked |-> FALSE]
remove_image(t, image) ==
    LET id == t.textures[image] IN
        [textures |-> [t.textures EXCEPT ![image] = NoId],
         free_list |-> IF id # NoId THEN Append(t.free_list, id) ELSE t.free_list,
         id |-> id, panicked |-> FALSE]

\* EguiUserTextures::image_id.
image_id(t, image) ==
    [textures |-> t.textures, free_list |-> t.free_list, id |-> t.textures[image],
     panicked |-> FALSE]

NoHist == [issued |-> [h \in Handles |-> NoId], freed |-> <<>>, allocated |-> {},
           removed |-> {}]

Without(q, id) == SelectSeq(q, LAMBDA x : x # id)

TexInit ==
    /\ textures = DefaultTextures.textures
    /\ free_list = DefaultTextures.free_list
    /\ tex_call = [op |-> "none", image |-> 0, id |-> NoId]
    /\ tex_before = [textures |-> textures, free_list |-> free_list, hist |-> NoHist]
    /\ tex_hist = NoHist

notTex == <<schedVars, fanVars, focusVars, modVars, touchVars, aggVars, stampVars,
            dndVars, wantsVars, lateVars>>

\* A call of `op` on the resource: the table is replaced by the one the method
\* leaves, the call and what it found are recorded.
Called(op, image, r) ==
    /\ tex_call.op # "panic"
    /\ textures' = r.textures
    /\ free_list' = r.free_list
    /\ tex_call' = [op |-> IF r.panicked THEN "panic" ELSE op, image |-> image,
                    id |-> r.id]
    /\ tex_before' = [textures |-> textures, free_list |-> free_list, hist |-> tex_hist]
    /\ UNCHANGED notTex

AddImage(image) ==
    /\ Called("add_image", image, add_image(Table, image))
    /\ tex_hist' =
           IF tex_hist.issued[image] # NoId \/ add_image(Table, image).panicked
           THEN tex_hist
           ELSE LET id == add_image(Table, image).id IN
                [issued |-> [tex_hist.issued EXCEPT ![image] = id],
                 freed |-> Without(tex_hist.freed, id),
                 allocated |-> tex_hist.allocated \cup {id},
                 removed |-> tex_hist.removed \ {image}]

RemoveImage(image) ==
    /\ Called("remove_image", image, remove_image(Table, image))
    /\ tex_hist' =
           LET id == remove_image(Table, image).id IN
           [issued |-> [tex_hist.issued EXCEPT ![image] = NoId],
            freed |-> IF id # NoId THEN Append(tex_hist.freed, id) ELSE tex_hist.freed,
            allocated |-> tex_hist.allocated,
            removed |-> IF tex_hist.issued[image] # NoId
                        THEN tex_hist.removed \cup {image} ELSE tex_hist.removed]

ImageId(image) ==
    /\ Called("image_id", image, image_id(Table, image))
    /\ UNCHANGED tex_hist

TexNext ==
    \/ \E image \in Handles : AddImage(image)
    \/ \E image \in Handles : RemoveImage(image)
    \/ \E image \in Handles : ImageId(image)

\* ================================================================== index
\* on_egui_context_added_system, the body of its loop for one context: a
\* context whose camera renders to a window is entered in both maps.
IndexAdd(m, c) ==
    IF camera_target[c] = NoWindow THEN m
    ELSE LET w == camera_target[c] IN
         [window_to_contexts |->
              Put(m.window_to_contexts, w,
                  (IF w \in DOMAIN m.window_to_contexts
                   THEN m.window_to_contexts[w] ELSE {}) \cup {c}),
          context_to_window |-> Put(m.context_to_window, c, w)]

\* on_egui_context_removed_system, the body of its loop for one entity.
IndexRemove_StopAtMiss(m, c) ==
    IF c \notin DOMAIN m.context_to_window THEN m
    ELSE LET w == m.context_to_window[c] IN
         IF w \notin DOMAIN m.window_to_contexts THEN m
         ELSE [window_to_contexts |-> [m.window_to_contexts EXCEPT ![w] = @ \ {c}],
               context_to_window |-> Drop(m.context_to_window, c)]
IndexRemove(m, c) ==
    IF c \notin DOMAIN m.context_to_window THEN m
    ELSE LET w == m.context_to_window[c] IN
         [window_to_contexts |->
              IF w \notin DOMAIN m.window_to_contexts THEN m.window_to_contexts
              ELSE [m.window_to_contexts EXCEPT ![w] = @ \ {c}],
          context_to_window |-> Drop(m.context_to_window, c)]

RECURSIVE IndexAddAll(_, _, _)
IndexAddAll(m, order, i) ==
    IF i > Len(order) THEN m ELSE IndexAddAll(IndexAdd(m, order[i]), order, i + 1)

RECURSIVE IndexRemoveAll(_, _, _)
IndexRemoveAll(m, batch, i) ==
    IF i > Len(batch) THEN m ELSE IndexRemoveAll(IndexRemove(m, batch[i]), batch, i + 1)

Maps == [window_to_contexts |-> window_to_contexts, context_to_window |-> context_to_window]

\* The batch holds, at i, a context whose forward mapping names a window
\* without a window-side entry and, after it, a context entered in both maps.
Orphan(m, c) ==
    c \in DOMAIN m.context_to_window
        /\ m.context_to_window[c] \notin DOMAIN m.window_to_contexts
OrphanThenMapped(m, batch) ==
    \E i, j \in DOMAIN batch :
        /\ i < j /\ batch[i] # batch[j]
        /\ Orphan(m, batch[i])
        /\ batch[j] \in DOMAIN m.context_to_window /\ ~Orphan(m, batch[j])

IndexInit ==
    /\ camera_target = [c \in Ctx |-> NoWindow]
    /\ added_contexts = {}
    /\ removed_contexts = <<>>
    /\ istage = "Update"
    /\ removed_before = FALSE

notIdx == <<schedRest, hovered, focused, iterVars, focusVars, modVars, touchVars, aggVars,
            stampVars, dndVars, wantsVars, texVars, imeVars, orderVars>>

RemovalUnread(c) == \E i \in DOMAIN removed_contexts : removed_contexts[i] = c

\* A new entity is spawned with an EguiContext and a camera rendering to
\* window w, or to no window. (A despawned Entity is never handed out again:
\* an id stands for a new entity once the index has read its removal.)
IndexSpawn(c, w) ==
    /\ istage = "Update" /\ ~alive[c] /\ ~RemovalUnread(c)
    /\ alive' = [alive EXCEPT ![c] = TRUE]
    /\ camera_target' = [camera_target EXCEPT ![c] = w]
    /\ added_contexts' = added_contexts \cup {c}
    /\ UNCHANGED <<window_to_contexts, context_to_window, removed_contexts, istage,
                   removed_before>>
    /\ UNCHANGED notIdx

\* The EguiContext component is inserted again on an entity it was removed
\* from, before the index has read the removal.
IndexReinsert(c, w) ==
    /\ istage = "Update" /\ ~alive[c] /\ RemovalUnread(c)
    /\ alive' = [alive EXCEPT ![c] = TRUE]
    /\ camera_target' = [camera_target EXCEPT ![c] = w]
    /\ added_contexts' = added_contexts \cup {c}
    /\ UNCHANGED <<window_to_contexts, context_to_window, removed_contexts, istage,
                   removed_before>>
    /\ UNCHANGED notIdx

\* The entity is despawned, or its EguiContext component removed.

IndexDespawn(c) ==
    /\ istage = "Update" /\ alive[c]
    /\ Len(removed_contexts) < MaxEvents
    /\ alive' = [alive EXCEPT ![c] = FALSE]
    /\ camera_target' = [camera_target EXCEPT ![c] = NoWindow]
    /\ added_contexts' = added_contexts \ {c}
    /\ removed_contexts' = Append(removed_contexts, c)
    /\ UNCHANGED <<window_to_contexts, context_to_window, istage, removed_before>>
    /\ UNCHANGED notIdx

\* WindowToEguiContextMap::on_egui_context_added_system.
OnEguiContextAdded ==
    /\ istage = "Update"
    /\ \E order \in Orders(added_contexts) :
           LET m == IndexAddAll(Maps, order, 1) IN
           /\ window_to_contexts' = m.window_to_contexts
           /\ context_to_window' = m.context_to_window
    /\ added_contexts' = {}
    /\ istage' = "Added"
    /\ UNCHANGED <<alive, camera_target, removed_contexts, removed_before>>
    /\ UNCHANGED notIdx

\* WindowToEguiContextMap::on_egui_context_removed_system, chained after it.
OnEguiContextRemoved ==
    /\ istage = "Added"
    /\ LET m == IndexRemoveAll(Maps, removed_contexts, 1) IN
       /\ window_to_contexts' = m.window_to_contexts
       /\ context_to_window' = m.context_to_window
    /\ removed_before' = OrphanThenMapped(Maps, removed_contexts)
    /\ removed_contexts' = <<>>
    /\ istage' = "Update"
    /\ UNCHANGED <<alive, camera_target, added_contexts>>
    /\ UNCHANGED notIdx

\* The fields of the resource are public: application code drops the
\* window-side entry of a window (a closed window, say).
WindowEntryRemoved(w) ==
    /\ istage = "Update" /\ w \in DOMAIN window_to_contexts
    /\ window_to_contexts' = Drop(window_to_contexts, w)
    /\ UNCHANGED <<alive, context_to_window, idxVars>>
    /\ UNCHANGED notIdx

IndexNext ==
    \/ \E c \in Ctx, w \in Windows \cup {NoWindow} : IndexSpawn(c, w)
    \/ \E c \in Ctx, w \in Windows \cup {NoWindow} : IndexReinsert(c, w)
    \/ \E c \in Ctx : IndexDespawn(c)
    \/ OnEguiContextAdded
    \/ OnEguiContextRemoved

\* The teardown of entities and windows: contexts are spawned and despawned,
\* window entries dropped.
IndexPubNext ==
    \/ \E c \in Ctx, w \in Windows \cup {NoWindow} : IndexSpawn(c, w)
    \/ \E c \in Ctx : IndexDespawn(c)
    \/ OnEguiContextAdded
    \/ OnEguiContextRemoved
    \/ \E w \in Windows : WindowEntryRemoved(w)

\* ==================================================================== IME
\* write_ime_events_system: one pass of its loop body per host IME event.
HostImeEvents == {"Enabled", "Preedit", "Commit", "Disabled"}

\* What a closure or a match arm does: the events it writes, the marker it leaves.
ImeStep(written, marker) == [written |-> written, marker |-> marker]

\* let ime_event_enable = |ime_state, writer| { if !has_sent_ime_enabled { .. } }
ime_event_enable(marker) ==
    IF ~marker THEN ImeStep(<<"Enabled">>, TRUE) ELSE ImeStep(<<>>, marker)

\* let ime_event_disable = |ime_state, writer| { if !has_sent_ime_enabled { .. } }
ime_event_disable(marker) ==
    IF ~marker THEN ImeStep(<<"Disabled">>, FALSE) ELSE ImeStep(<<>>, marker)

\* match event { Enabled, Preedit, Commit, Disabled }
ImeMatch(event, marker) ==
    CASE event = "Enabled" -> ime_event_enable(marker)
      [] event = "Preedit" ->
             LET en == ime_event_enable(marker)
             IN ImeStep(en.written \o <<"Preedit">>, en.marker)
      [] event = "Commit" ->
             LET dis == ime_event_disable(marker)
             IN ImeStep(<<"Commit">> \o dis.written, dis.marker)
      [] event = "Disabled" -> ime_event_disable(marker)

NoImeCall == [context |-> NoCtx, event |-> "-", marker |-> FALSE, skipped |-> FALSE,
              written |-> <<>>]

ImeInit ==
    /\ has_sent_ime_enabled = [c \in Ctx |-> FALSE]
    /\ run_write_ime_events_system = [c \in Ctx |-> TRUE]
    /\ ime_written = [c \in Ctx |-> <<>>]
    /\ ime_call = NoImeCall

notIme == <<schedVars, fanVars, focusVars, modVars, touchVars, aggVars, stampVars,
            dndVars, wantsVars, texVars, idxVars, orderVars>>

\* The loop body for one host event routed to context c.
WriteImeEvent(c, event) ==
    /\ Len(ime_written[c]) < MaxEvents
    /\ LET marker == has_sent_ime_enabled[c]
           skipped == ~run_write_ime_events_system[c]
           step == IF skipped THEN ImeStep(<<>>, marker) ELSE ImeMatch(event, marker)
       IN /\ has_sent_ime_enabled' = [has_sent_ime_enabled EXCEPT ![c] = step.marker]
          /\ ime_written' = [ime_written EXCEPT ![c] = @ \o step.written]
          /\ ime_call' = [context |-> c, event |-> event, marker |-> marker,
                          skipped |-> skipped, written |-> step.written]
    /\ UNCHANGED run_write_ime_events_system
    /\ UNCHANGED notIme

\* A user system writes the context's run_write_ime_events_system setting.
SetRunWriteImeEvents(c, on) ==
    /\ run_write_ime_events_system[c] # on
    /\ run_write_ime_events_system' = [run_write_ime_events_system EXCEPT ![c] = on]
    /\ UNCHANGED <<has_sent_ime_enabled, ime_written, ime_call>>
    /\ UNCHANGED notIme

ImeNext ==
    \/ \E c \in Ctx, event \in HostImeEvents : WriteImeEvent(c, event)
    \/ \E c \in Ctx, on \in BOOLEAN : SetRunWriteImeEvents(c, on)

\* ========================================================= specifications
Init ==
    /\ SchedInit /\ FanInit /\ FocusInit /\ ModsInit /\ TouchInit /\ AggInit
    /\ StampInit /\ DndInit /\ WantsInit /\ TexInit /\ IndexInit /\ ImeInit /\ OrderInit

Spec == Init /\ [][SchedNext]_vars

SpecFan == Init /\ [][FanNext]_vars

SpecFocus == Init /\ [][FocusNext]_vars

SpecMods == Init /\ [][ModsNext]_vars

SpecTouch == Init /\ [][TouchNext]_vars

SpecAgg == Init /\ [][AggNext]_vars

SpecStamp == Init /\ [][StampNext]_vars

SpecDnd == Init /\ [][DndNext]_vars

SpecWants == Init /\ [][WantsNext]_vars

SpecTex == Init /\ [][TexNext]_vars

SpecMidFrame == Init /\ [][SchedMidFrameNext]_vars

SpecIndex == Init /\ [][IndexNext]_vars

SpecIndexPub == Init /\ [][IndexPubNext]_vars

SpecIme == Init /\ [][ImeNext]_vars

SpecFocusOrder == Init /\ [][FocusOrderNext]_vars

\* ------------------------------------------------- scheduler properties
\* A context the scheduler is responsible for in this frame.
Eligible(c) == alive[c] /\ ~run_manually[c]

\* The eligible contexts with a schedule are bound to pairwise-distinct labels.
DistinctSchedules ==
    \A c, d \in MultipassEligible :
        c # d => multipass_schedule[c] # multipass_schedule[d]

BRE == <<"B", "R", "E">>
IsPrefix(s, t) == Len(s) <= Len(t) /\ \A i \in 1..Len(s) : s[i] = t[i]

\* Idle -> Began -> Ran -> Ended, read off the frame's record.
Phase(c) == CASE steps[c] = <<>> -> "Idle"
              [] steps[c] = <<"B">> -> "Began"
              [] steps[c] = <<"B", "R">> -> "Ran"
              [] steps[c] = BRE -> "Ended"
              [] OTHER -> "Invalid"

Addressed(c) == {i \in DOMAIN invocations : invocations[i].context = c}
FallbackCount == Cardinality(Addressed(NoCtx))
FrameOver == stage \in {"end", "output"}

\* C1: in a frame whose eligible contexts have pairwise-distinct schedule
\* labels every eligible context is begun, run and ended once, in that order
\* (Ended when the frame's passes are over, Idle at the frame boundary); a
\* context is never begun twice, run or ended without having been begun.
C1_OncePerFrame ==
    /\ \A c \in Ctx : IsPrefix(steps[c], BRE)
    /\ (stage = "output" /\ DistinctSchedules) =>
           \A c \in Ctx : Eligible(c) => Phase(c) = "Ended"
    /\ stage = "start" => \A c \in Ctx : Phase(c) = "Idle"

C1_Witness ==
    /\ stage = "output" /\ DistinctSchedules
    /\ \E c \in MultipassEligible, d \in LegacyContexts :
           /\ Eligible(d) /\ steps[c] = BRE /\ steps[d] = BRE

\* C2: with two eligible contexts bound to one label the loop never completes
\* (its only exit is the panic), and no label is run for two contexts in a frame.
C2_DuplicateIsFatal ==
    /\ (stage = "loop" /\ multipass_contexts = <<>>) \/ FrameOver => DistinctSchedules
    /\ \A i, j \in DOMAIN invocations :
           (/\ invocations[i].schedule = invocations[j].schedule
            /\ invocations[i].context # NoCtx /\ invocations[j].context # NoCtx)
               => invocations[i].context = invocations[j].context

C2_Witness ==
    /\ stage = "panicked"
    /\ \E c, d \in MultipassEligible :
           /\ c # d /\ multipass_schedule[c] = multipass_schedule[d]
           /\ Addressed(c) # {} /\ Addressed(d) = {}

\* C3 (as claimed): with exactly two eligible contexts, bound to distinct
\* labels, both passes run once, nothing panics and the unaddressed run of
\* EguiPrimaryContextPass does not happen.
C3_TwoSchedulesNoFallback ==
    (/\ Cardinality({c \in Ctx : Eligible(c)}) = 2
     /\ Cardinality(MultipassEligible) = 2
     /\ DistinctSchedules)
    => /\ stage # "panicked"
       /\ stage = "output" =>
              /\ \A c \in MultipassEligible : steps[c] = BRE /\ Addressed(c) # {}
              /\ FallbackCount = 0

\* C4: with no EguiMultipassSchedule on any context and a primary context
\* present, EguiPrimaryContextPass is run exactly once, addressed to no context.
NoExplicitSchedule == \A c \in Ctx : alive[c] => multipass_schedule[c] = NoSchedule

C4_FallbackOnce ==
    (NoExplicitSchedule /\ PrimaryContextExists) =>
        /\ \A i \in DOMAIN invocations :
               invocations[i] = [schedule |-> EguiPrimaryContextPass, context |-> NoCtx]
        /\ Len(invocations) <= 1
        /\ FrameOver => Len(invocations) = 1

C4_Witness ==
    /\ stage = "output" /\ NoExplicitSchedule /\ PrimaryContextExists
    /\ FallbackCount = 1

\* C5: EguiPrimaryContextPass is never run both for a context and unaddressed
\* in one frame.
PrimaryConsumed ==
    \E i \in DOMAIN invocations :
        /\ invocations[i].schedule = EguiPrimaryContextPass
        /\ invocations[i].context # NoCtx

C5_NoFallbackAfterPrimary == PrimaryConsumed => FallbackCount = 0

C5_Witness == stage = "output" /\ PrimaryConsumed /\ PrimaryContextExists

\* C6 (as claimed): for a run-manually context nothing is drained or stored
\* and the label it is bound to is not run in the frame.
C6_ManualScheduleNeverRun ==
    \A c \in Ctx : (alive[c] /\ run_manually[c]) =>
        /\ steps[c] = <<>>
        /\ \A i \in DOMAIN invocations :
               invocations[i].schedule # multipass_schedule[c]

\* C6 (amended): for a run-manually context the scheduler drains nothing,
\* stores no output and runs no pass addressed to it; its buffer and output
\* slot are untouched from the begin step to the end of the frame.
C6_ManualNotDriven ==
    /\ [](\A c \in Ctx : (alive[c] /\ run_manually[c]) =>
              /\ steps[c] = <<>>
              /\ Addressed(c) = {}
              /\ ~full_output[c])
    /\ [][\A c \in Ctx : (alive[c] /\ run_manually[c] /\ stage # "start") =>
              /\ input'[c] = input[c]
              /\ full_output'[c] = full_output[c]]_vars

C6_Witness ==
    /\ stage = "output"
    /\ \E c, d \in Ctx :
           /\ alive[c] /\ run_manually[c] /\ input[c] > 0
           /\ multipass_schedule[c] # NoSchedule
           /\ Eligible(d) /\ steps[d] = BRE

\* --------------------------------------------------- fan-out properties
\* The iterator is through with event e: it fetched a later event, or it
\* fetched e and emptied the Vec again.
Completed(e) == e < event_iter \/ (e = event_iter /\ current_event_contexts = <<>>)

Fetched == 1..event_iter
Unredirected == reader # "none" /\ non_window_context = NoCtx

\* Every event of the run is paired with exactly the context t.
OnlyTo(t) ==
    /\ \A e \in 1..Len(events), c \in Ctx :
           pairs[e][c] = IF c = t /\ e \in Fetched THEN 1 ELSE 0
    /\ done => event_iter = Len(events)

\* Every event of the finished run is paired once with every context
\* registered to its window and with no other.
AllToWindowContexts ==
    \A e \in 1..Len(events), c \in Ctx :
        pairs[e][c] = IF c \in Registered(events[e]) THEN 1 ELSE 0

\* C7: without redirection an event the iterator takes from a window with
\* N >= 1 registered contexts yields exactly N pairs, one for each registered
\* context, and no pair for any other context.
C7_FanOutOncePerContext ==
    Unredirected =>
        \A e \in 1..Len(events), c \in Ctx :
            /\ pairs[e][c] <= 1
            /\ pairs[e][c] = 1 => (c \in Registered(events[e]) /\ e \in Fetched)
            /\ (e \in Fetched /\ Completed(e) /\ c \in Registered(events[e]))
                   => pairs[e][c] = 1

C7_Witness ==
    /\ Unredirected /\ done
    /\ \E e \in Fetched :
           /\ Cardinality(Registered(events[e])) >= 2
           /\ \A c \in Registered(events[e]) : pairs[e][c] = 1

\* C8: while HoveredNonWindowEguiContext holds T, every event read by the
\* pointer-button, wheel and drag-and-drop translators is paired exactly once,
\* with T, however many contexts its window has.
C8_HoverRedirectsAll ==
    /\ \A sys \in HoverSystems : ReaderOf(sys) = "read_with_non_window_hovered"
    /\ (reader = "read_with_non_window_hovered" /\ hovered # NoCtx) => OnlyTo(hovered)

C8_Witness ==
    /\ reader = "read_with_non_window_hovered" /\ hovered # NoCtx /\ done
    /\ \E e1, e2 \in Fetched :
           /\ Registered(events[e1]) = {}
           /\ Registered(events[e2]) # {}
           /\ hovered \notin Registered(events[e2])

\* C9 (as claimed): keyboard and IME events go to exactly T while
\* FocusedNonWindowEguiContext holds T, and to every context registered to
\* their window while it is empty.
C9_FocusRouting ==
    reader = "read_with_non_window_focused" =>
        IF focused # NoCtx THEN OnlyTo(focused) ELSE (done => AllToWindowContexts)

\* C10 (as claimed): without redirection a finished run has taken every event
\* and paired each, in event order, with the contexts of its window; an event
\* without contexts does not stop the events behind it from being paired.
C10_EveryEventPaired ==
    (Unredirected /\ done) => (in_order /\ AllToWindowContexts)

\* ----------------------------------------------------- focus properties
FocusApplied == fstage = "ReadBevyEvents"

\* C11 (as claimed): in a frame whose events contain a primary-button press
\* or a touch-start, with focus updates enabled, the focus resource equals
\* the hover resource once the commands are applied, whatever window the
\* events come from and whatever contexts that window has.
C11_FocusEqualsHoverAfterPress ==
    (/\ FocusApplied
     /\ enable_focused_non_window_context_updates
     /\ "qualifying" \in frame_log)
    => focused = hovered

\* C12 (as claimed): in a frame whose events contain no button press and no
\* touch-start the focus resource keeps its value.
C12_StickyFocus ==
    (FocusApplied /\ frame_log = {}) => ~focus_changed

NoModifiers ==
    /\ ~modifier_keys_state.shift /\ ~modifier_keys_state.ctrl
    /\ ~modifier_keys_state.alt /\ ~modifier_keys_state.win

ModifierKeys == {"Shift", "Control", "Alt", "Super"}
LostAt == {i \in DOMAIN keyboard_log : IsFocusLost(keyboard_log[i])}

\* The frame's log holds a focus-lost notification and no modifier key-down
\* behind the last one.
FocusLostLast ==
    /\ LostAt # {}
    /\ \A i \in DOMAIN keyboard_log, j \in LostAt :
           (/\ IsKey(keyboard_log[i]) /\ keyboard_log[i].state = "Pressed"
            /\ keyboard_log[i].logical_key \in ModifierKeys)
               => (i < j /\ \E k \in LostAt : i < k)

Tracked == mstage \in {"ReadBevyEvents", "WriteEguiEvents"}

\* C14 (as claimed): once the tracker has processed a frame whose log holds a
\* focus-lost notification, with no modifier key-down behind it, the four
\* flags are false, whatever was pressed before the focus loss.
C14_ResetOnFocusLost == (Tracked /\ FocusLostLast) => NoModifiers

\* The pressed character keys of the frame handled by the keyboard translator.
PressedCharacters ==
    {i \in DOMAIN keyboard_log :
        /\ IsKey(keyboard_log[i])
        /\ keyboard_log[i].state = "Pressed"
        /\ keyboard_log[i].logical_key = "Character"}
Translated == mstage = "WriteEguiEvents"
NoText == text_events \cap PressedCharacters = {}
AllText == PressedCharacters \subseteq text_events

C16_CtrlAltPassesText ==
    (/\ Translated
     /\ modifier_keys_state.ctrl /\ modifier_keys_state.alt
     /\ ~modifier_keys_state.win)
    => AllText

\* C16 (amended): on a platform other than macOS, with ctrl and alt held,
\* every pressed character key produces a text event; on macOS none does.
C16_CtrlAltPassesTextExceptMac ==
    (/\ Translated
     /\ modifier_keys_state.ctrl /\ modifier_keys_state.alt
     /\ ~modifier_keys_state.win)
    => IF modifier_keys_state.is_macos THEN NoText ELSE AllText

C16_Witness ==
    /\ Translated /\ PressedCharacters # {}
    /\ ~modifier_keys_state.is_macos
    /\ modifier_keys_state.ctrl /\ modifier_keys_state.alt /\ ~modifier_keys_state.win
    /\ AllText

\* ----------------------------------------------------- touch properties
\* The pointer events among the written ones, in order.
IsPointerEvent(e) == e.kind # "Touch"
PointerEvents(written) == SelectSeq(written, IsPointerEvent)
Kinds(written) == [i \in DOMAIN written |-> <<written[i].kind, written[i].pressed>>]

\* The last two calls are a touch-start that found the context without an
\* active id and an event of the given phase for the same touch and context.
StartThen(phase) ==
    /\ prev_call.context # NoCtx /\ prev_call.context = last_call.context
    /\ prev_call.phase = "Started" /\ prev_call.active = NoTouch
    /\ last_call.phase = phase /\ last_call.id = prev_call.id

\* C17: a touch-start at P on a context without an active id, followed by the
\* end of that touch, writes to the context the pointer events move(P),
\* button-down(primary), button-up(primary), pointer-gone, in that order, and
\* leaves the context without an active id.
C17_StartEndEmulation ==
    StartThen("Ended") =>
        LET ptr == PointerEvents(prev_call.written \o last_call.written) IN
        /\ Kinds(ptr) = <<<<"PointerMoved", NoField>>, <<"PointerButton", "true">>,
                          <<"PointerButton", "false">>, <<"PointerGone", NoField>>>>
        /\ ptr[1].pos = prev_call.position
        /\ pointer_touch_id[last_call.context] = NoTouch

C17_Witness ==
    /\ StartThen("Ended")
    /\ prev_call.position # last_call.position
    /\ \E d \in Ctx : d # last_call.context /\ pointer_touch_id[d] # NoTouch

\* C18: a touch-start at P on a context without an active id, followed by the
\* cancel of that touch, writes the pointer events move(P),
\* button-down(primary), pointer-gone: no button-up; the active id is cleared.
C18_StartCancelEmulation ==
    StartThen("Canceled") =>
        LET ptr == PointerEvents(prev_call.written \o last_call.written) IN
        /\ Kinds(ptr) = <<<<"PointerMoved", NoField>>, <<"PointerButton", "true">>,
                          <<"PointerGone", NoField>>>>
        /\ ptr[1].pos = prev_call.position
        /\ \A i \in DOMAIN ptr : ptr[i].pressed # "false"
        /\ pointer_touch_id[last_call.context] = NoTouch

C18_Witness ==
    /\ StartThen("Canceled")
    /\ last_call.written =
           <<Touch(last_call.id, "Cancel", last_call.position), PointerGone>>

\* C19: a touch event whose id differs from the context's active id writes
\* exactly one event, the raw touch event, and leaves the active id as it was;
\* this holds for each of the four phases.
C19_OtherTouchPassesThrough ==
    (/\ last_call.context # NoCtx
     /\ last_call.active # NoTouch /\ last_call.id # last_call.active)
    => /\ last_call.written =
              <<Touch(last_call.id, EguiTouchPhase(last_call.phase), last_call.position)>>
       /\ pointer_touch_id[last_call.context] = last_call.active

C19_Witness ==
    /\ last_call.context # NoCtx
    /\ last_call.active = "A" /\ last_call.id = "B" /\ last_call.phase = "Ended"
    /\ pointer_touch_id[last_call.context] = "A"

\* ------------------------------------------------ aggregator properties
\* The payloads of the frame's events addressed to context c, in the order
\* they were written.
AddressedTo(c) ==
    LET mine == SelectSeq(egui_input_event_reader, LAMBDA ev : ev.context = c)
    IN [i \in DOMAIN mine |-> mine[i].event]

IsSuffix(s, t) ==
    Len(s) <= Len(t) /\ \A i \in 1..Len(s) : s[i] = t[Len(t) - Len(s) + i]

\* C20: what the aggregator appends to a context's buffer in a frame is the
\* sequence of the frame's events addressed to that context, in the order
\* written: nothing reordered, duplicated, lost or put into another buffer;
\* until a pass takes the buffer they are its last elements.
C20_AppendedInOrder ==
    astage = "BeginPass" =>
        \A c \in Ctx :
            /\ alive[c] => appended[c] = AddressedTo(c)
            /\ ~alive[c] => appended[c] = <<>> /\ egui_input_events[c] = <<>>
            /\ egui_input_events[c] # <<>> => IsSuffix(appended[c], egui_input_events[c])

C20_Witness ==
    /\ astage = "BeginPass"
    /\ \E c, d \in Ctx :
           /\ c # d /\ alive[c] /\ alive[d]
           /\ appended[c] = <<"y", "x">>
           /\ Len(egui_input_events[c]) > Len(appended[c])
           /\ egui_input_events[d] # <<>> /\ appended[d] = <<>>

\* --------------------------------------------------- stamping properties
Stamped == sstage = "BeginPass"
FocusedContexts == {c \in Ctx : alive[c] /\ egui_input_focused[c]}
\* Context c is registered with a window that reports OS focus.
OwningWindowFocused(c) ==
    \E w \in Windows : c \in Registered(w) /\ window_focus[w] = "focused"
\* What the claim says the stamp of c is.
ClaimedStamp(c) ==
    focused = c \/ (focused = NoCtx /\ OwningWindowFocused(c))

DndDone == dstage = "BeginPass"
\* The places of the frame's events addressed to context c.
DndFor(c) ==
    {i \in DOMAIN egui_file_dnd_event_reader : egui_file_dnd_event_reader[i].context = c}
DndOf(c, kinds) == {i \in DndFor(c) : egui_file_dnd_event_reader[i].event \in kinds}
ClearsFor(c) == DndOf(c, {"DroppedFile", "HoveredFileCanceled"})
Last(S) == CHOOSE i \in S : \A j \in S : j <= i

\* C22: once the aggregator has run, the hovered-files list of a context that
\* was sent a drop or a hover-canceled event holds only the files hovered
\* after the last such event (it is empty when nothing followed), every drop
\* has appended one dropped file, and the lists of a context that was sent no
\* event are as they were.
C22_DropAndCancelClearHover ==
    DndDone =>
        \A c \in Ctx :
            /\ (alive[c] /\ ClearsFor(c) # {}) =>
                   Len(hovered_files[c]) =
                       Cardinality({i \in DndOf(c, {"HoveredFile"}) : i > Last(ClearsFor(c))})
            /\ alive[c] =>
                   Len(dropped_files[c]) =
                       Len(files_before[c].dropped)
                           + Cardinality(DndOf(c, {"DroppedFile"}))
            /\ (~alive[c] \/ DndFor(c) = {}) =>
                   /\ hovered_files[c] = files_before[c].hovered
                   /\ dropped_files[c] = files_before[c].dropped

C22_Witness ==
    /\ DndDone
    /\ \E c, d \in Ctx :
           /\ c # d /\ alive[c] /\ alive[d]
           /\ files_before[c].hovered # <<>>
           /\ DndFor(c) # {}
           /\ egui_file_dnd_event_reader[Last(DndFor(c))].event = "DroppedFile"
           /\ hovered_files[c] = <<>> /\ dropped_files[c] = <<File>>
           /\ DndFor(d) = {} /\ hovered_files[d] # <<>>

\* ------------------------------------------ skipped events, drained buffers
Aggregated == astage = "BeginPass"
\* The places of the frame's events whose context has no EguiInput.
Missed == {i \in DOMAIN egui_input_event_reader : ~alive[egui_input_event_reader[i].context]}
\* How many events up to place i are addressed to the context of event i.
Rank(i) ==
    Cardinality({j \in 1..i :
        egui_input_event_reader[j].context = egui_input_event_reader[i].context})

\* C23: the aggregator always finishes its run; an event addressed to a
\* context that does not exist puts nothing into any buffer, and every other
\* event of the frame, those behind it included, is in the buffer of its
\* context at its place among the events of that context.
C23_MissIsSkipped ==
    Aggregated =>
        /\ \A i \in DOMAIN egui_input_event_reader \ Missed :
               LET ev == egui_input_event_reader[i] IN
               /\ Rank(i) <= Len(appended[ev.context])
               /\ appended[ev.context][Rank(i)] = ev.event
        /\ \A c \in Ctx :
               Len(appended[c]) = IF alive[c] THEN Len(AddressedTo(c)) ELSE 0
        /\ \A c \in Ctx : c \notin begun =>
               egui_input_events[c] = carried[c] \o appended[c]

C23_Witness ==
    /\ Aggregated
    /\ \E i \in Missed : \E j \in DOMAIN egui_input_event_reader \ Missed :
           /\ i < j
           /\ egui_input_events[egui_input_event_reader[j].context]
                  = <<egui_input_event_reader[j].event>>

\* C24: the Begin of a context's pass hands the pass everything its buffer
\* held, what earlier frames left there and what this frame's aggregator
\* pushed, and leaves the buffer empty; a buffer no pass has taken keeps all
\* of it for the next Begin.
C24_DrainedOnce ==
    /\ Aggregated =>
           \A c \in Ctx :
               /\ (alive[c] /\ c \in begun) =>
                      /\ egui_input_events[c] = <<>>
                      /\ handed[c] = carried[c] \o AddressedTo(c)
               /\ (alive[c] /\ c \notin begun) =>
                      /\ handed[c] = <<>>
                      /\ egui_input_events[c] = carried[c] \o AddressedTo(c)
    /\ ~Aggregated => (carried = egui_input_events /\ handed = NoEvents)

C24_Witness ==
    /\ Aggregated
    /\ \E c \in begun :
           /\ carried[c] # <<>> /\ appended[c] # <<>>
           /\ handed[c] = carried[c] \o appended[c]
           /\ egui_input_events[c] = <<>>

\* C25: a context whose pass asked for a discard-and-rerun k times in a frame
\* has its schedule run k + 1 times in a row inside its one Run step (no other
\* context's run in between, the last run being the one that asked for no
\* rerun), its input drained by one Begin and its output stored by one End.
C25_RerunInsideOneStep ==
    \A c \in Ctx :
        IF \A i \in DOMAIN invocations : invocations[i].context # c
        THEN reruns[c] = 0
        ELSE /\ steps[c] \in {<<"B", "R">>, BRE}
             /\ \E first \in DOMAIN invocations :
                    Addressed(c) = first..(first + reruns[c])
             /\ FrameOver => steps[c] = BRE /\ input[c] = 0 /\ full_output[c]

C25_Witness ==
    /\ stage = "output"
    /\ \E c, d \in Ctx :
           /\ c # d /\ Addressed(d) # {} /\ steps[d] = BRE
           /\ reruns[c] >= 1 /\ Cardinality(Addressed(c)) = reruns[c] + 1
           /\ steps[c] = BRE /\ full_output[c]

\* C26: when write_egui_wants_input_system has run, each of the five fields of
\* EguiWantsInput is the OR of that answer over the contexts now live, whatever
\* the fields held before; with no live context all five are false.
C26_WantsIsOrOverLive ==
    wstage = "PreUpdate" =>
        \A f \in Flags :
            egui_wants_input[f] = (\E c \in Ctx : alive[c] /\ ctx_wants[c][f])

C26_Witness ==
    /\ wstage = "PreUpdate"
    /\ \A c \in Ctx : ~alive[c]
    /\ absorbed.ran /\ absorbed.pointer /\ absorbed.keyboard
    /\ egui_wants_input = NoWants

\* C27: for every combination of the five fields, wants_any_pointer_input is
\* is_pointer_over_area OR wants_pointer_input OR is_using_pointer OR
\* is_popup_open, and wants_any_keyboard_input is wants_keyboard_input OR
\* is_popup_open (as absorb_bevy_input_system read them this frame).
C27_DerivedWants ==
    (wstage = "Update" /\ absorbed.ran) =>
        /\ absorbed.pointer =
               (\E f \in {"is_pointer_over_area", "wants_pointer_input",
                          "is_using_pointer", "is_popup_open"} : egui_wants_input[f])
        /\ absorbed.keyboard =
               (\E f \in {"wants_keyboard_input", "is_popup_open"} : egui_wants_input[f])

C27_Witness ==
    /\ wstage = "Update" /\ absorbed.ran
    /\ egui_wants_input = [NoWants EXCEPT !["is_popup_open"] = TRUE]
    /\ absorbed.pointer /\ absorbed.keyboard

LiveBefore(image) == tex_before.hist.issued[image] # NoId
LiveHandles == {h \in Handles : textures[h] # NoId}

\* C28: while a handle is live (after the add that registered it, before its
\* next remove) every add_image and image_id of it returns the id that add
\* returned, whatever was done to other handles since, and such an add_image
\* leaves the map and the free list as they were.
C28_SameIdWhileLive ==
    (tex_call.op \in {"add_image", "image_id"} /\ LiveBefore(tex_call.image)) =>
        /\ tex_call.id = tex_before.hist.issued[tex_call.image]
        /\ tex_call.op = "add_image" =>
               /\ textures = tex_before.textures
               /\ free_list = tex_before.free_list

C28_Witness ==
    /\ tex_call.op = "add_image" /\ LiveBefore(tex_call.image)
    /\ tex_call.id = 0
    /\ tex_hist.freed # <<>>
    /\ Cardinality(LiveHandles) >= 2
    /\ free_list = tex_before.free_list

\* C29: the first add_image on a fresh table returns 0; an add_image of a handle
\* that is not live returns the most recently freed id while a freed id is
\* available, and only otherwise a fresh id, one above every id handed out so far.
C29_FreedIdsFirst ==
    tex_call.op = "add_image" =>
        /\ (tex_before.textures = DefaultTextures.textures
             /\ tex_before.free_list = DefaultTextures.free_list) => tex_call.id = 0
        /\ ~LiveBefore(tex_call.image) =>
               tex_call.id =
                   IF tex_before.hist.freed # <<>>
                   THEN tex_before.hist.freed[Len(tex_before.hist.freed)]
                   ELSE IF tex_before.hist.allocated = {} THEN 0
                   ELSE Last(tex_before.hist.allocated) + 1

C29_Witness ==
    /\ tex_call.op = "add_image" /\ ~LiveBefore(tex_call.image)
    /\ Len(tex_before.hist.freed) >= 2
    /\ tex_call.id = tex_before.hist.freed[Len(tex_before.hist.freed)]
    /\ tex_call.id < Last(tex_before.hist.allocated)

C29_FreshWitness ==
    /\ tex_call.op = "add_image" /\ ~LiveBefore(tex_call.image)
    /\ tex_before.hist.freed = <<>> /\ tex_before.hist.removed # {}
    /\ tex_call.id = Last(tex_before.hist.allocated) + 1

\* C30: after any calls of add_image, remove_image and image_id, among them a
\* remove_image of a handle never added and a second remove_image of a handle,
\* two live handles never have the same id and no id of the free list is the
\* id of a live handle.
C30_NoIdSharedOrFreeWhileLive ==
    /\ \A g, h \in LiveHandles : textures[g] = textures[h] => g = h
    /\ \A i \in DOMAIN free_list, h \in LiveHandles : free_list[i] # textures[h]

C30_Witness ==
    /\ tex_call.op = "remove_image" /\ tex_call.id = NoId
    /\ tex_call.image \in tex_before.hist.removed
    /\ \E h \in Handles : h # tex_call.image /\ h \notin tex_hist.removed
                           /\ ~(h \in LiveHandles) /\ tex_hist.allocated # {}
    /\ Cardinality(LiveHandles) >= 1
    /\ Len(free_list) >= 2

IndexSettled == istage = "Update" /\ added_contexts = {} /\ removed_contexts = <<>>
InForward(c) == c \in DOMAIN context_to_window
InBackward(c) == \E w \in DOMAIN window_to_contexts : c \in window_to_contexts[w]

\* C31: whatever contexts were created and destroyed, the two maps mirror each
\* other (context_to_window maps c to w exactly when c is in
\* window_to_contexts[w]); once the index has processed the changes a destroyed
\* context is in neither map and a live window context is in both.
C31_MapsMirror ==
    /\ \A c \in Ctx, w \in Windows :
           (InForward(c) /\ context_to_window[c] = w) <=> c \in Registered(w)
    /\ IndexSettled =>
           \A c \in Ctx :
               /\ ~alive[c] => ~InForward(c) /\ ~InBackward(c)
               /\ (alive[c] /\ camera_target[c] # NoWindow) =>
                      /\ InForward(c) /\ context_to_window[c] = camera_target[c]
                      /\ c \in Registered(camera_target[c])

Batch == {removed_contexts[i] : i \in DOMAIN removed_contexts}

\* C38: a run of on_egui_context_removed_system deletes the forward mapping of
\* every removed context of the batch, also of one whose window has no
\* window-side entry and of those that come after it; it takes each of them out
\* of its window's set where that set exists, touches nothing else, and a
\* removed context without a forward mapping changes neither map.
C38_RemovalIsBestEffort ==
    [][(istage = "Added" /\ istage' = "Update") =>
          /\ DOMAIN context_to_window' = DOMAIN context_to_window \ Batch
          /\ \A c \in DOMAIN context_to_window' :
                 context_to_window'[c] = context_to_window[c]
          /\ DOMAIN window_to_contexts' = DOMAIN window_to_contexts
          /\ \A w \in DOMAIN window_to_contexts :
                 window_to_contexts'[w] =
                     window_to_contexts[w] \
                         {c \in Batch : InForward(c) /\ context_to_window[c] = w}
      ]_vars

C38_Witness ==
    /\ istage = "Update" /\ removed_before
    /\ removed_contexts = <<>>
    /\ context_to_window = <<>>
    /\ \E c \in Ctx : alive[c] /\ camera_target[c] = NoWindow

NoContextAtAll == \A c \in Ctx : ~alive[c]

\* C32: in a frame in which no context exists the scheduler runs no schedule,
\* the unaddressed run of EguiPrimaryContextPass included, does not panic, and
\* leaves every buffer, output slot and step record as the frame found it.
C32_NoContextNoOp ==
    (stage # "start" /\ NoContextAtAll) =>
        /\ invocations = <<>>
        /\ stage # "panicked"
        /\ used_schedules = {} /\ multipass_contexts = <<>> /\ cur = NoCtx
        /\ \A c \in Ctx : steps[c] = <<>> /\ ~full_output[c] /\ input[c] = 0

C32_Witness ==
    /\ stage = "output" /\ NoContextAtAll
    /\ invocations = <<>>
    /\ \A c \in Ctx : steps[c] = <<>> /\ ~full_output[c]

\* C33: when two eligible contexts share a schedule label the panic comes
\* before any pass of the loop has started: no schedule has been run and no
\* output slot written in that frame.
C33_CheckBeforeAnyPass ==
    stage = "panicked" =>
        /\ invocations = <<>>
        /\ \A c \in Ctx : ~full_output[c]

\* C34: a pass begun for a context in a frame is ended in that frame, also when
\* user code changes the context's run_manually flag or its schedule between
\* the Begin and the End: when the frame's passes are over, every context that
\* was begun has been run and ended, once.
C34_BegunIsEnded ==
    stage = "output" =>
        \A c \in Ctx : (steps[c] # <<>> /\ Head(steps[c]) = "B") => steps[c] = BRE

\* C35: a touch-move, touch-end or touch-cancel that reaches a context
\* without an active touch id writes no pointer event, only the raw touch
\* event; in particular no button-up without a button-down of that touch.
C35_NoEmulationWithoutActiveId ==
    (/\ last_call.context # NoCtx
     /\ last_call.active = NoTouch
     /\ last_call.phase \in {"Moved", "Ended", "Canceled"})
    => PointerEvents(last_call.written) = <<>>

\* ------------------------------------------------------- IME properties
\* The Enabled and Disabled events among those written to context c.
Toggles(c) == SelectSeq(ime_written[c], LAMBDA e : e \in {"Enabled", "Disabled"})

\* C36: the IME events written to a context never hold two Enabled events
\* without a Disabled event between them, nor two Disabled events without an
\* Enabled event between them.
C36_NoDuplicateToggle ==
    \A c \in Ctx :
        \A i \in 1..(Len(Toggles(c)) - 1) : Toggles(c)[i] # Toggles(c)[i + 1]

\* C37: a host Commit or Disabled event processed for a context whose marker
\* has_sent_ime_enabled is true writes a Disabled event to the context and
\* leaves the marker false.
C37_DisableClearsMarker ==
    (/\ ime_call.context # NoCtx /\ ~ime_call.skipped
     /\ ime_call.event \in {"Commit", "Disabled"} /\ ime_call.marker)
    => /\ \E i \in DOMAIN ime_call.written : ime_call.written[i] = "Disabled"
       /\ ~has_sent_ime_enabled[ime_call.context]

\* ------------------------------------------------- free-list properties
\* The ids of the handles in the table, and the ids waiting in the free list.
LiveIds == {textures[h] : h \in Handles} \ {NoId}
FreeIds == {free_list[i] : i \in DOMAIN free_list}

\* The next fresh id: the smallest id add_image has never returned.
NextFreshId ==
    CHOOSE n \in 0..Cardinality(tex_hist.allocated) :
        n \notin tex_hist.allocated /\ \A k \in 0..(n - 1) : k \in tex_hist.allocated

\* C40: after any sequence of add_image and remove_image calls the free list
\* is not empty and the expect in add_image has not failed; the ids of the
\* live handles and the ids in the free list are the ids 0..F, F the next
\* fresh id, each of them held by one handle or one free-list position.
C40_FreeListPartition ==
    /\ tex_call.op # "panic"
    /\ free_list # <<>>
    /\ LiveIds \cup FreeIds = 0..NextFreshId
    /\ LiveIds \cap FreeIds = {}
    /\ \A h, g \in Handles : (textures[h] # NoId /\ textures[h] = textures[g]) => h = g
    /\ \A i, j \in DOMAIN free_list : free_list[i] = free_list[j] => i = j

C40_Witness ==
    /\ tex_call.op = "add_image" /\ tex_call.id \in tex_before.hist.allocated
    /\ Cardinality(LiveIds) >= 2
    /\ Len(free_list) >= 2
    /\ NextFreshId = NumHandles

\* ---------------------------------------------- focus command properties
BothRan == fstage = "FocusContext" /\ ran = {ButtonSystem, TouchSystem}

\* C39: when both systems of the FocusContext set have run, the focus
\* resource the sync point will leave is the same for the order they ran in
\* and for the other order, and each queued command on its own sets the
\* resource to the frame's hover resource.
C39_OrderIndependentFocus ==
    BothRan =>
        /\ ApplyQueue(focused, command_queue) = ApplyQueue(focused, swapped_queue)
        /\ \A i \in DOMAIN command_queue :
               ApplyCommand(focused, command_queue[i]) = hovered

C39_Witness ==
    /\ BothRan
    /\ hovered # NoCtx /\ focused # hovered
    /\ Len(command_queue) >= 2
    /\ command_queue[1].system = TouchSystem
    /\ command_queue[Len(command_queue)].system = ButtonSystem
    /\ swapped_queue # command_queue

====
